---- MODULE Spec2Model ----
(***************************************************************************)
(* State-machine model of CarlaEngineJuce                                  *)
(* (source/backend/engine/CarlaEngineJuce.cpp): the device lifecycle       *)
(* (init / close / setBufferSizeAndSampleRate), the xrun counters, the     *)
(* MIDI endpoint registries, the cross-thread MIDI event queue, the        *)
(* render callback and the patchbay refresh.                               *)
(*                                                                         *)
(* The juce::AudioIODevice behind fDevice is an external collaborator; it  *)
(* is modelled by the Device* operators: open() either reports an error or *)
(* opens the device with the requested values snapped to the nearest       *)
(* supported ones, start(cb) registers cb and starts the callback thread,  *)
(* stop() unregisters it, close() closes the stream.                       *)
(***************************************************************************)
EXTENDS Integers, Sequences, FiniteSets, TLC

(***************************************************************************)
(* Bounds of the model.                                                    *)
(***************************************************************************)
MaxEndpoints == 1
MaxPending == 1
MaxXruns == 3
MaxConnId == 2
kMaxEngineEventInternalCount == 2

(***************************************************************************)
(* Program constants and the environment's catalogue.                      *)
(***************************************************************************)
kDataSize == 4
kExternalGraphCarlaPortMidiIn == 5
kExternalGraphCarlaPortMidiOut == 6
\* uint32_t arithmetic wraps at UIntModulus (TLC's integers are 32 bits wide, so
\* the 32-bit wrap-around is modelled at 16 bits)
UIntModulus == 2 ^ 16

ProcessModes == {"CONTINUOUS_RACK", "PATCHBAY", "SINGLE_CLIENT"}

\* fDeviceType->getDeviceNames(), with what each device offers
AudioDevices ==
    << [name |-> "hw0",  inputs |-> 1, outputs |-> 2, countsXruns |-> TRUE],
       [name |-> "hw1",  inputs |-> 0, outputs |-> 1, countsXruns |-> FALSE],
       [name |-> "mute", inputs |-> 1, outputs |-> 0, countsXruns |-> TRUE] >>

\* pData->options.audioDevice: empty (the default, hw0, is used), a device
\* without outputs, an unknown name; and the same with a device whose driver
\* does not count xruns
AudioDeviceOptions == {"", "mute", "gone"}
XrunDeviceOptions == {"", "hw1"}
DefaultIndices == {-1, 0}
\* client names a caller may pass to init()
ClientNames == {"Carla", ""}

\* what the device advertises, and what a caller may request
DeviceBufferSizes == {2, 4}
DeviceSampleRates == {44100, 48000}
RequestBufferSizes == {2, 3, 4}
RequestSampleRates == {44100, 48000}

\* juce::MidiInput::getAvailableDevices() / juce::MidiOutput::getAvailableDevices()
MidiInDevices ==
    << [name |-> "a2jmidid - port", identifier |-> "in1"],
       [name |-> "kbd", identifier |-> "in0"] >>
MidiOutDevices ==
    << [name |-> "synth", identifier |-> "out0"] >>
PortNames == {"kbd", "a2jmidid - port", "synth", "none"}
MidiIdentifiers == {"in0", "in1", "out0"}

\* raw messages a MIDI input may deliver: empty, 1 byte, 3 bytes, oversize
MidiMessages == { <<>>, <<248>>, <<144, 60, 100>>, <<240, 1, 2, 3, 247>> }

\* timeInfo.frame values the transport may hold at a period start
Frames == {0, 4}

VARIABLES
    fDevice,        \* the juce::AudioIODevice fDevice points to (NoDevice: nullptr)
    pData,          \* CarlaEngine::ProtectedData fields this driver uses
    fMidiIns,       \* LinkedList<MidiInPort>
    fMidiOuts,      \* LinkedList<MidiOutPort>
    fMidiInEvents,  \* RtMidiEvents: data, dataPending
    native,         \* live native MIDI handles per identifier (juce::MidiInput/Output objects)
    midiThread,     \* the MIDI input thread: idle, or inside RtMidiEvents::append()
    sync,           \* where the device and control threads are, and who holds which mutex
    last,           \* the last call: operation, arguments, return value, what it did
    prev,           \* the call before it
    gDeviceTypes,   \* the process-wide OwnedArray of device types, by type name
    juce            \* the threads using the registry: where each is, what it was returned

vars ==
    <<fDevice, pData, fMidiIns, fMidiOuts, fMidiInEvents, native, midiThread, sync, last, prev, gDeviceTypes, juce>>

(***************************************************************************)
(* Small helpers.                                                          *)
(***************************************************************************)
Max(S) == CHOOSE x \in S : \A y \in S : y <= x
Min(S) == CHOOSE x \in S : \A y \in S : x <= y

(***************************************************************************)
(* The juce::AudioIODevice.                                                *)
(***************************************************************************)
NoDevice ==
    [exists |-> FALSE, isOpen |-> FALSE, isPlaying |-> FALSE, callback |-> "none",
     bufferSize |-> 0, sampleRate |-> 0, inputs |-> 0, outputs |-> 0,
     countsXruns |-> FALSE, xruns |-> 0]

\* the hardware snaps a requested value to the nearest supported one below it
SnapTo(S, v) ==
    IF v \in S THEN v
    ELSE IF \E x \in S : x <= v THEN Max({x \in S : x <= v})
    ELSE Min(S)

\* fDeviceType->createDevice(name, name): nullptr for a name the type does not know
CreateDevice(name) ==
    IF \E i \in 1..Len(AudioDevices) : AudioDevices[i].name = name
    THEN LET i == CHOOSE i \in 1..Len(AudioDevices) : AudioDevices[i].name = name
         IN  [NoDevice EXCEPT !.exists = TRUE,
                              !.inputs = AudioDevices[i].inputs,
                              !.outputs = AudioDevices[i].outputs,
                              !.countsXruns = AudioDevices[i].countsXruns]
    ELSE NoDevice

\* fDevice->open(ins, outs, sampleRate, bufferSize); ok = FALSE: it reports an error
DeviceOpen(d, sampleRate, bufferSize, ok) ==
    IF ok
    THEN [d EXCEPT !.isOpen = TRUE,
                   !.bufferSize = SnapTo(DeviceBufferSizes, bufferSize),
                   !.sampleRate = SnapTo(DeviceSampleRates, sampleRate),
                   !.xruns = IF d.countsXruns THEN 0 ELSE -1]
    ELSE [d EXCEPT !.isOpen = FALSE, !.isPlaying = FALSE, !.callback = "none"]

\* fDevice->start(callback)
DeviceStart(d, cb) ==
    IF d.isOpen THEN [d EXCEPT !.isPlaying = TRUE, !.callback = cb] ELSE d

\* fDevice->stop()
DeviceStop(d) == [d EXCEPT !.isPlaying = FALSE, !.callback = "none"]

\* fDevice->close()
DeviceClose(d) == [d EXCEPT !.isOpen = FALSE, !.isPlaying = FALSE, !.callback = "none"]

(***************************************************************************)
(* The engine's state as one value, so that close() can be used inside     *)
(* init() and setBufferSizeAndSampleRate().                                *)
(***************************************************************************)
Engine ==
    [fDevice |-> fDevice, pData |-> pData, fMidiIns |-> fMidiIns,
     fMidiOuts |-> fMidiOuts, fMidiInEvents |-> fMidiInEvents, native |-> native]

EmptyExtGraph ==
    [audioIns |-> <<>>, audioOuts |-> <<>>, midiIns |-> <<>>, midiOuts |-> <<>>,
     connections |-> <<>>, lastId |-> 0]

NoGraph == [isReady |-> FALSE, extGraph |-> EmptyExtGraph]

NoCall ==
    [op |-> "none", ret |-> TRUE, bufferSize |-> 0, sampleRate |-> 0,
     openOk |-> TRUE, rollbackOk |-> TRUE,
     pre |-> [bufferSize |-> 0, sampleRate |-> 0, devBufferSize |-> 0,
              devSampleRate |-> 0, hasDevice |-> FALSE, isPlaying |-> FALSE,
              isRunning |-> FALSE],
     callbacks |-> <<>>, ops |-> <<>>, graphEvents |-> <<>>, value |-> 0, name |-> "",
     error |-> "", graphInvoked |-> FALSE, locked |-> FALSE, output |-> "",
     out |-> <<>>, queued |-> 0, frame |-> 0, time |-> 0]

\* what a later call remembers of the call before it: which operation it was,
\* whether it succeeded and, for a successful reconfiguration, the values in
\* force before it
Summary(c) ==
    [op |-> IF c.op \in {"init", "close", "setBufferSizeAndSampleRate"} THEN c.op ELSE "other",
     ret |-> c.ret,
     preBufferSize |-> IF c.op = "setBufferSizeAndSampleRate" /\ c.ret
                       THEN c.pre.bufferSize ELSE 0,
     preSampleRate |-> IF c.op = "setBufferSizeAndSampleRate" /\ c.ret
                       THEN c.pre.sampleRate ELSE 0]

\* isRunning()
isRunning(e) == e.fDevice.exists /\ e.fDevice.isOpen

\* the values in force when a call starts
Pre(e) ==
    [bufferSize |-> e.pData.bufferSize, sampleRate |-> e.pData.sampleRate,
     devBufferSize |-> e.fDevice.bufferSize, devSampleRate |-> e.fDevice.sampleRate,
     hasDevice |-> e.fDevice.exists, isPlaying |-> e.fDevice.isPlaying,
     isRunning |-> isRunning(e)]

(***************************************************************************)
(* The processing graph and its external port registry (CarlaEngineGraph). *)
(***************************************************************************)
InputChannelNames == <<"capture_1", "capture_2">>
OutputChannelNames == <<"playback_1", "playback_2">>

\* pData->graph.create(ins, outs, 0, 0): a fresh graph with an empty registry
GraphCreate(p) == [p EXCEPT !.graph = [isReady |-> TRUE, extGraph |-> EmptyExtGraph]]

\* pData->graph.destroy(): the graph and its registry are deleted
GraphDestroy(p) == [p EXCEPT !.graph = NoGraph]

\* extGraph.clear(): ports and connection records dropped, the id counter kept
ExtGraphClear(g) ==
    [audioIns |-> <<>>, audioOuts |-> <<>>, midiIns |-> <<>>, midiOuts |-> <<>>,
     connections |-> <<>>, lastId |-> g.lastId]

\* variant of ClearLastPorts: the ports and connections of the last refresh stay
ClearLastPorts_Skipped(g) == g

\* variant of ClearLastPorts: the ports are dropped, the connection list stays
ClearLastPorts_PortsOnly(g) == [ExtGraphClear(g) EXCEPT !.connections = g.connections]

\* "clear last ports" at the head of refreshExternalGraphPorts
ClearLastPorts(g) == ExtGraphClear(g)

\* variant of AudioPorts: port ids count from 0
AudioPorts_ZeroBased(group, names, count) ==
    [i \in 1..count |->
        [group |-> group, port |-> i - 1, name |-> names[i], identifier |-> ""]]

\* the audio loops of refreshExternalGraphPorts: port ids 1..count
AudioPorts(group, names, count) ==
    [i \in 1..count |->
        [group |-> group, port |-> i, name |-> names[i], identifier |-> ""]]

\* the MIDI loops of refreshExternalGraphPorts: the a2jmidid bridge is skipped,
\* a port keeps its enumeration index as id
RECURSIVE MidiPorts(_, _, _)
MidiPorts(group, devs, i) ==
    IF i > Len(devs) THEN <<>>
    ELSE IF devs[i].name = "a2jmidid - port" THEN MidiPorts(group, devs, i + 1)
    ELSE << [group |-> group, port |-> i, name |-> devs[i].name,
             identifier |-> devs[i].identifier] >> \o MidiPorts(group, devs, i + 1)

\* extGraph.midiPorts.getPortIdFromIdentifier(isInput, identifier, &ok)
getPortIdFromIdentifier(ports, identifier) ==
    IF \E i \in 1..Len(ports) : ports[i].identifier = identifier
    THEN [ok |-> TRUE,
          portId |-> ports[Min({i \in 1..Len(ports) : ports[i].identifier = identifier})].port]
    ELSE [ok |-> FALSE, portId |-> 0]

\* variant of NextId: the counter is read without being incremented
NextId_Same(lastId) == lastId

\* ++(extGraph.connections.lastId)
NextId(lastId) == lastId + 1

\* the "add midi connections" loop over fMidiIns
RECURSIVE InConnections(_, _, _)
InConnections(ports, midiPorts, lastId) ==
    IF ports = <<>> THEN <<>>
    ELSE LET r == getPortIdFromIdentifier(midiPorts, Head(ports).identifier)
         IN  IF ~r.ok THEN InConnections(Tail(ports), midiPorts, lastId)
             ELSE << [id |-> NextId(lastId), groupA |-> "MidiIn", portA |-> r.portId,
                      groupB |-> "Carla", portB |-> kExternalGraphCarlaPortMidiIn] >>
                  \o InConnections(Tail(ports), midiPorts, NextId(lastId))

\* the "add midi connections" loop over fMidiOuts
RECURSIVE OutConnections(_, _, _)
OutConnections(ports, midiPorts, lastId) ==
    IF ports = <<>> THEN <<>>
    ELSE LET r == getPortIdFromIdentifier(midiPorts, Head(ports).identifier)
         IN  IF ~r.ok THEN OutConnections(Tail(ports), midiPorts, lastId)
             ELSE << [id |-> NextId(lastId), groupA |-> "Carla", portA |-> kExternalGraphCarlaPortMidiOut,
                      groupB |-> "MidiOut", portB |-> r.portId] >>
                  \o OutConnections(Tail(ports), midiPorts, NextId(lastId))

\* callback(sendHost, sendOSC, ENGINE_CALLBACK_PATCHBAY_CONNECTION_ADDED, id, ..., "gA:pA:gB:pB")
ConnectionAdded(sendHost, sendOSC, c) ==
    [action |-> "PATCHBAY_CONNECTION_ADDED", sendHost |-> sendHost, sendOSC |-> sendOSC,
     value |-> c.id, payload |-> <<c.groupA, c.portA, c.groupB, c.portB>>]

\* refreshExternalGraphPorts<Graph>(graph, sendHost, sendOSC)
refreshExternalGraphPorts(e, sendHost, sendOSC) ==
    LET g0 == ClearLastPorts(e.pData.graph.extGraph)
        midiIns == g0.midiIns \o MidiPorts("MidiIn", MidiInDevices, 1)
        midiOuts == g0.midiOuts \o MidiPorts("MidiOut", MidiOutDevices, 1)
        inConns == InConnections(e.fMidiIns, midiIns, g0.lastId)
        outConns == OutConnections(e.fMidiOuts, midiOuts,
                                   IF inConns = <<>> THEN g0.lastId
                                   ELSE inConns[Len(inConns)].id)
        conns == inConns \o outConns
        g1 == [audioIns |-> g0.audioIns
                            \o AudioPorts("AudioIn", InputChannelNames, e.fDevice.inputs),
               audioOuts |-> g0.audioOuts
                             \o AudioPorts("AudioOut", OutputChannelNames, e.fDevice.outputs),
               midiIns |-> midiIns, midiOuts |-> midiOuts,
               connections |-> g0.connections \o conns,
               lastId |-> IF conns = <<>> THEN g0.lastId ELSE conns[Len(conns)].id]
        refreshed == IF sendHost \/ sendOSC
                     THEN << [action |-> "graph.refresh", sendHost |-> sendHost,
                              sendOSC |-> sendOSC, value |-> 0, payload |-> <<>>] >>
                     ELSE <<>>
    IN  [e |-> [e EXCEPT !.pData.graph.extGraph = g1],
         ret |-> TRUE,
         callbacks |-> refreshed \o
             [i \in 1..Len(conns) |-> ConnectionAdded(sendHost, sendOSC, conns[i])]]

\* variant of GraphReady: the graph is taken to be there
GraphReady_Always(e) == TRUE

\* pData->graph.isReady() as patchbayRefresh() asks it
GraphReady(e) == e.pData.graph.isReady

\* patchbayRefresh(sendHost, sendOSC, external)
patchbayRefresh(e, sendHost, sendOSC, external) ==
    IF ~GraphReady(e) THEN [e |-> e, ret |-> FALSE, callbacks |-> <<>>]
    ELSE IF e.pData.options.processMode = "CONTINUOUS_RACK"
    THEN refreshExternalGraphPorts(e, sendHost, sendOSC)
    ELSE IF external THEN refreshExternalGraphPorts(e, sendHost, sendOSC)
    ELSE [e |-> e, ret |-> TRUE, callbacks |-> <<>>]

(***************************************************************************)
(* close()                                                                 *)
(***************************************************************************)
\* one registry loop of close(): stop the endpoint's thread, delete its handle
RECURSIVE StopAndDelete(_, _, _)
StopAndDelete(ports, handles, dir) ==
    IF ports = <<>> THEN [handles |-> handles, ops |-> <<>>]
    ELSE LET id == Head(ports).identifier
             rest == StopAndDelete(Tail(ports), [handles EXCEPT ![id] = @ - 1], dir)
         IN  [handles |-> rest.handles,
              ops |-> << <<dir, "stop", id>>, <<dir, "delete", id>> >> \o rest.ops]

\* variant of StopFirst: the stream keeps running while the engine is taken down
StopFirst_Skipped(d) == d

\* "stop stream first": fDevice->stop() if there is a device and it is playing
StopFirst(d) == IF d.exists /\ d.isPlaying THEN DeviceStop(d) ELSE d

StopFirstOps(d) ==
    IF d.exists /\ d.isPlaying THEN << <<"device", "stop", "">> >> ELSE <<>>

\* variant of CloseStream: the device is closed but fDevice is not reset
CloseStream_KeepDevice(d) == IF d.exists /\ d.isOpen THEN DeviceClose(d) ELSE d

\* "close stream": fDevice->close() if it is open, then fDevice = nullptr
CloseStream(d) == IF d.exists THEN NoDevice ELSE d

\* variant of CloseStreamOps: fDevice->close() without the null and isOpen checks
CloseStreamOps_Unguarded(d) ==
    << <<"device", "close", "">> >>
    \o (IF d.exists THEN << <<"device", "delete", "">> >> ELSE <<>>)

CloseStreamOps(d) ==
    (IF d.exists /\ d.isOpen THEN << <<"device", "close", "">> >> ELSE <<>>)
    \o (IF d.exists THEN << <<"device", "delete", "">> >> ELSE <<>>)

\* the input loop of close() followed by fMidiIns.clear()
ClearInputs(ops) == ops \o << <<"in", "clear", "">> >>

\* variant of UnderOutputLock: the output loop runs without fMidiOutMutex
UnderOutputLock_Unlocked(ops) == ops \o << <<"out", "clear", "">> >>

\* fMidiOutMutex.lock(), the output loop, fMidiOuts.clear(), fMidiOutMutex.unlock()
UnderOutputLock(ops) ==
    << <<"out", "lock", "">> >> \o ops
    \o << <<"out", "clear", "">>, <<"out", "unlock", "">> >>

close(e) ==
    LET d1 == StopFirst(e.fDevice)
        ins == StopAndDelete(e.fMidiIns, e.native.ins, "in")
        outs == StopAndDelete(e.fMidiOuts, e.native.outs, "out")
    IN  [e |-> [fDevice |-> CloseStream(d1),
                pData |-> GraphDestroy(e.pData),
                fMidiIns |-> <<>>,
                fMidiOuts |-> <<>>,
                fMidiInEvents |-> [data |-> <<>>, dataPending |-> <<>>],
                native |-> [ins |-> ins.handles, outs |-> outs.handles]],
         ret |-> TRUE,
         callbacks |-> <<>>,
         error |-> "",
         ops |-> StopFirstOps(e.fDevice) \o ClearInputs(ins.ops)
                 \o UnderOutputLock(outs.ops) \o CloseStreamOps(d1)]

(***************************************************************************)
(* init(clientName)                                                        *)
(***************************************************************************)
\* the device name init() settles on: the configured one, else the default one
InitDeviceName(audioDevice, defaultIndex) ==
    IF audioDevice # "" THEN audioDevice
    ELSE IF defaultIndex >= 0 /\ defaultIndex < Len(AudioDevices)
    THEN AudioDevices[defaultIndex + 1].name
    ELSE ""

\* variant of StartStream: the stream is started without handing over the engine
StartStream_Unregistered(d) == DeviceStart(d, "none")

\* fDevice->start(this) at the end of init()
StartStream(d) == DeviceStart(d, "engine")

\* the tail of init() once the device is open and pData->init() succeeded
InitStarted(e, opened) ==
    LET p1 == GraphCreate([e.pData EXCEPT !.bufferSize = opened.bufferSize,
                                          !.sampleRate = opened.sampleRate])
        e1 == [e EXCEPT !.fDevice = StartStream(opened), !.pData = p1]
        r1 == patchbayRefresh(e1, TRUE, FALSE, FALSE)
        r2 == IF p1.options.processMode = "PATCHBAY"
              THEN refreshExternalGraphPorts(r1.e, FALSE, FALSE)
              ELSE [e |-> r1.e, ret |-> TRUE, callbacks |-> <<>>]
    IN  [e |-> r2.e, ret |-> TRUE,
         callbacks |-> r1.callbacks \o r2.callbacks \o
             << [action |-> "ENGINE_STARTED", sendHost |-> TRUE, sendOSC |-> TRUE,
                 value |-> p1.bufferSize,
                 payload |-> <<p1.options.processMode, p1.sampleRate>>] >>,
         ops |-> << <<"device", "open", "">>, <<"device", "start", "">> >>,
         error |-> ""]

\* variant of InitDataFailed: the error is set without calling close()
InitDataFailed_NoClose(e, opened) ==
    [e |-> [e EXCEPT !.fDevice = opened], ret |-> FALSE, callbacks |-> <<>>,
     ops |-> << <<"device", "open", "">> >>,
     error |-> "Failed to init internal data"]

\* variant of InitDataFailed: close() without setLastError()
InitDataFailed_NoMessage(e, opened) ==
    LET c == close([e EXCEPT !.fDevice = opened])
    IN  [e |-> c.e, ret |-> FALSE, callbacks |-> <<>>,
         ops |-> << <<"device", "open", "">> >> \o c.ops,
         error |-> ""]

\* pData->init(clientName) failed: close(), then the error is set
InitDataFailed(e, opened) ==
    LET c == close([e EXCEPT !.fDevice = opened])
    IN  [e |-> c.e, ret |-> FALSE, callbacks |-> <<>>,
         ops |-> << <<"device", "open", "">> >> \o c.ops,
         error |-> "Failed to init internal data"]

init(e, clientName, audioDevice, defaultIndex, audioSampleRate, audioBufferSize, openOk, dataInitOk) ==
    LET fail(dev, msg) ==
            [e |-> [e EXCEPT !.fDevice = dev],
             ret |-> FALSE, callbacks |-> <<>>, ops |-> <<>>, error |-> msg]
        deviceName == InitDeviceName(audioDevice, defaultIndex)
        created == CreateDevice(deviceName)
        opened == DeviceOpen(created, audioSampleRate, audioBufferSize, openOk)
    IN  \* CARLA_SAFE_ASSERT_RETURN(clientName != nullptr && clientName[0] != '\0', false)
        IF clientName = ""
        THEN fail(e.fDevice, "")
        ELSE IF e.pData.options.processMode \notin {"CONTINUOUS_RACK", "PATCHBAY"}
        THEN fail(e.fDevice, "Invalid process mode")
        ELSE IF deviceName = ""
        THEN fail(e.fDevice,
                  "Audio device has not been selected yet and a default one is not available")
        ELSE IF ~created.exists
        THEN fail(NoDevice, "Failed to create device")
        ELSE IF created.inputs < 0 \/ created.outputs <= 0
        THEN fail(created, "Selected device does not have any outputs")
        ELSE IF ~openOk
        THEN fail(NoDevice, "device open error")
        ELSE IF ~dataInitOk
        THEN InitDataFailed(e, opened)
        ELSE InitStarted(e, opened)

(***************************************************************************)
(* setBufferSizeAndSampleRate(bufferSize, sampleRate)                      *)
(***************************************************************************)
\* the device after "stop stream first": stopped if playing, closed if open
StopStream(d) ==
    LET d1 == IF d.isPlaying THEN DeviceStop(d) ELSE d
    IN  IF d1.isOpen THEN DeviceClose(d1) ELSE d1

StopStreamOps(d) ==
    (IF d.isPlaying THEN << <<"device", "stop", "">> >> ELSE <<>>)
    \o (IF d.isOpen THEN << <<"device", "close", "">> >> ELSE <<>>)

\* variant of RollbackOpen: the rollback asks for the device defaults (0, 0)
RollbackOpen_Defaults(e, stopped, ok) == DeviceOpen(stopped, 0, 0, ok)

\* "try to roll back": fDevice->open() with the values held in pData
RollbackOpen(e, stopped, ok) ==
    DeviceOpen(stopped, e.pData.sampleRate, e.pData.bufferSize, ok)

\* variant of FatalClose: fDevice = nullptr without the close() that follows
FatalClose_NoClose(e) ==
    [e |-> [e EXCEPT !.fDevice = NoDevice],
     ret |-> TRUE, callbacks |-> <<>>, error |-> "", ops |-> <<>>]

\* "if we failed, we are screwed": fDevice = nullptr; close()
FatalClose(e) == close([e EXCEPT !.fDevice = NoDevice])

\* the new parameters were refused: roll back to the previous ones
Rollback(e, stopped, rollbackOk) ==
    IF rollbackOk
    THEN [e |-> [e EXCEPT !.fDevice = RollbackOpen(e, stopped, TRUE)],
          ret |-> FALSE, callbacks |-> <<>>,
          ops |-> << <<"device", "open", "">>, <<"device", "open", "">> >>,
          error |-> "device open error"]
    ELSE LET c == FatalClose(e)
         IN  [e |-> c.e, ret |-> FALSE, callbacks |-> <<>>,
              ops |-> << <<"device", "open", "">>, <<"device", "open", "">>,
                         <<"device", "delete", "">> >> \o c.ops,
              error |-> "device open error"]

\* carla_isNotEqual(pData->sampleRate, newSampleRate)
RateChanged(p, newSampleRate) == p.sampleRate # newSampleRate

\* variant of SizeChanged: the new size is stored and announced unconditionally
SizeChanged_Always(p, newBufferSize) == TRUE

\* variant of SizeChanged: the new size is never stored or announced
SizeChanged_Never(p, newBufferSize) == FALSE

\* pData->bufferSize != newBufferSize
SizeChanged(p, newBufferSize) == p.bufferSize # newBufferSize

\* variant of RestartStream: the reopened device is not started
RestartStream_Missing(d) == d

\* fDevice->start(this) at the end of setBufferSizeAndSampleRate()
RestartStream(d) == DeviceStart(d, "engine")

\* the new parameters were accepted: notify what changed, restart the stream
Reopened(e, opened) ==
    LET newBufferSize == opened.bufferSize
        newSampleRate == opened.sampleRate
        p1 == [e.pData EXCEPT
                 !.sampleRate = IF RateChanged(e.pData, newSampleRate)
                                THEN newSampleRate ELSE @,
                 !.bufferSize = IF SizeChanged(e.pData, newBufferSize)
                                THEN newBufferSize ELSE @]
    IN  [e |-> [e EXCEPT !.fDevice = RestartStream(opened), !.pData = p1],
         ret |-> TRUE,
         callbacks |->
             (IF RateChanged(e.pData, newSampleRate)
              THEN << [action |-> "sampleRateChanged", sendHost |-> TRUE, sendOSC |-> TRUE,
                       value |-> newSampleRate, payload |-> <<>>] >>
              ELSE <<>>)
             \o (IF SizeChanged(e.pData, newBufferSize)
                 THEN << [action |-> "bufferSizeChanged", sendHost |-> TRUE, sendOSC |-> TRUE,
                          value |-> newBufferSize, payload |-> <<>>] >>
                 ELSE <<>>),
         ops |-> << <<"device", "open", "">>, <<"device", "start", "">> >>,
         error |-> ""]

setBufferSizeAndSampleRate(e, bufferSize, sampleRate, openOk, rollbackOk) ==
    IF ~e.fDevice.exists
    THEN [e |-> e, ret |-> FALSE, callbacks |-> <<>>, ops |-> <<>>, error |-> ""]
    ELSE IF e.fDevice.inputs < 0 \/ e.fDevice.outputs <= 0
    THEN [e |-> e, ret |-> FALSE, callbacks |-> <<>>, ops |-> <<>>,
          error |-> "Selected device does not have any outputs"]
    ELSE LET stopped == StopStream(e.fDevice)
             r == IF openOk
                  THEN Reopened(e, DeviceOpen(stopped, sampleRate, bufferSize, TRUE))
                  ELSE Rollback(e, stopped, rollbackOk)
         IN  [r EXCEPT !.ops = StopStreamOps(e.fDevice) \o @]

(***************************************************************************)
(* getTotalXruns() / clearXruns()                                          *)
(***************************************************************************)
\* variant of getTotalXruns: the unsigned subtraction without the baseline test
getTotalXruns_NoBaselineTest(e) ==
    LET xruns == e.fDevice.xruns
    IN  IF xruns <= 0 THEN 0
        ELSE (xruns - e.pData.xruns) % UIntModulus

getTotalXruns(e) ==
    LET xruns == e.fDevice.xruns
    IN  IF xruns <= 0 THEN 0
        ELSE IF xruns <= e.pData.xruns THEN 0
        ELSE (xruns - e.pData.xruns) % UIntModulus

clearXruns(e) ==
    LET xruns == e.fDevice.xruns
    IN  [e EXCEPT !.pData.xruns = IF xruns > 0 THEN xruns ELSE 0]

(***************************************************************************)
(* connectExternalGraphPort / disconnectExternalGraphPort (MIDI cases)     *)
(***************************************************************************)
\* variant of FirstNamed: the first device stands in for a name that is not found
FirstNamed_OrFirst(devs, portName) ==
    IF \E i \in 1..Len(devs) : devs[i].name = portName
    THEN CHOOSE i \in 1..Len(devs) :
            devs[i].name = portName /\ \A j \in 1..(i - 1) : devs[j].name # portName
    ELSE IF Len(devs) > 0 THEN 1 ELSE 0

\* index of the first enumerated device called portName, 0 if there is none
FirstNamed(devs, portName) ==
    IF \E i \in 1..Len(devs) : devs[i].name = portName
    THEN Min({i \in 1..Len(devs) : devs[i].name = portName})
    ELSE 0

\* variant of RemoveAt: the entry stays in the list
RemoveAt_Keep(s, i) == s

RemoveAt(s, i) == SubSeq(s, 1, i - 1) \o SubSeq(s, i + 1, Len(s))

connectMidiInput(e, portName) ==
    LET i == FirstNamed(MidiInDevices, portName)
    IN  IF i = 0 THEN [e |-> e, ret |-> FALSE, callbacks |-> <<>>, ops |-> <<>>, error |-> ""]
        ELSE LET dev == MidiInDevices[i]
             IN  [e |-> [e EXCEPT !.native.ins[dev.identifier] = @ + 1,
                                  !.fMidiIns = Append(@, [name |-> portName,
                                                          identifier |-> dev.identifier])],
                  ret |-> TRUE, callbacks |-> <<>>, error |-> "",
                  ops |-> << <<"in", "open", dev.identifier>>,
                             <<"in", "start", dev.identifier>> >>]

connectMidiOutput(e, portName) ==
    LET i == FirstNamed(MidiOutDevices, portName)
    IN  IF i = 0 THEN [e |-> e, ret |-> FALSE, callbacks |-> <<>>, ops |-> <<>>, error |-> ""]
        ELSE LET dev == MidiOutDevices[i]
             IN  [e |-> [e EXCEPT !.native.outs[dev.identifier] = @ + 1,
                                  !.fMidiOuts = Append(@, [name |-> portName,
                                                           identifier |-> dev.identifier])],
                  ret |-> TRUE, callbacks |-> <<>>, error |-> "",
                  ops |-> << <<"out", "open", dev.identifier>>,
                             <<"out", "start", dev.identifier>> >>]

\* variant of ReleaseHandle: the thread is stopped but the handle is not deleted
ReleaseHandle_Leak(handles, id) == handles

\* delete inPort.port / delete outPort.port: one native handle less
ReleaseHandle(handles, id) == [handles EXCEPT ![id] = @ - 1]

disconnectMidiInput(e, portName) ==
    LET i == FirstNamed(e.fMidiIns, portName)
    IN  IF i = 0 THEN [e |-> e, ret |-> FALSE, callbacks |-> <<>>, ops |-> <<>>, error |-> ""]
        ELSE LET id == e.fMidiIns[i].identifier
             IN  [e |-> [e EXCEPT !.native.ins = ReleaseHandle(@, id),
                                  !.fMidiIns = RemoveAt(@, i)],
                  ret |-> TRUE, callbacks |-> <<>>, error |-> "",
                  ops |-> << <<"in", "stop", id>>, <<"in", "delete", id>>,
                             <<"in", "remove", id>> >>]

disconnectMidiOutput(e, portName) ==
    LET i == FirstNamed(e.fMidiOuts, portName)
    IN  IF i = 0 THEN [e |-> e, ret |-> FALSE, callbacks |-> <<>>, ops |-> <<>>, error |-> ""]
        ELSE LET id == e.fMidiOuts[i].identifier
             IN  [e |-> [e EXCEPT !.native.outs = ReleaseHandle(@, id),
                                  !.fMidiOuts = RemoveAt(@, i)],
                  ret |-> TRUE, callbacks |-> <<>>, error |-> "",
                  ops |-> << <<"out", "stop", id>>, <<"out", "delete", id>>,
                             <<"out", "remove", id>> >>]

(***************************************************************************)
(* handleIncomingMidiMessage(source, message)                              *)
(***************************************************************************)
\* the RtMidiEvent built from a message: time 0, data padded with zeros
RtMidiEventOf(message) ==
    [time |-> 0, size |-> Len(message),
     data |-> [i \in 1..kDataSize |-> IF i <= Len(message) THEN message[i] ELSE 0]]

\* variant of handleIncomingMidiMessage: the message size is not tested
handleIncomingMidiMessage_AnySize(e, message) ==
    [e EXCEPT !.fMidiInEvents.dataPending = Append(@, RtMidiEventOf(message))]

handleIncomingMidiMessage(e, message) ==
    IF Len(message) <= 0 \/ Len(message) > kDataSize THEN e
    ELSE [e EXCEPT !.fMidiInEvents.dataPending = Append(@, RtMidiEventOf(message))]

(***************************************************************************)
(* audioDeviceIOCallback                                                   *)
(***************************************************************************)
\* RtMidiEvents::splice(): dataPending is moved to the end of data
splice(q) ==
    IF Len(q.dataPending) > 0
    THEN [data |-> q.data \o q.dataPending, dataPending |-> <<>>]
    ELSE q

\* engineEvent.time for one raw event in the period starting at frame
EngineEventTime(time, frame, nframes) ==
    IF time < frame THEN 0
    ELSE IF time >= frame + nframes THEN ((frame % UIntModulus) + nframes - 1) % UIntModulus
    ELSE (time - frame) % UIntModulus

\* variant of BufferFull: the loop never stops at the end of events.in
BufferFull_Never(engineEventIndex) == FALSE

\* engineEventIndex >= kMaxEngineEventInternalCount
BufferFull(engineEventIndex) == engineEventIndex >= kMaxEngineEventInternalCount

\* variant of FillEvents: the newest raw event is written to events.in first
FillEvents_NewestFirst(data, engineEventIndex, frame, nframes) ==
    [i \in 1..Min({Len(data), kMaxEngineEventInternalCount - engineEventIndex}) |->
        LET ev == data[Len(data) + 1 - i]
        IN  [type |-> "Midi", time |-> EngineEventTime(ev.time, frame, nframes),
             size |-> ev.size, data |-> ev.data]]

\* the loop over fMidiInEvents.data, from write index engineEventIndex
RECURSIVE FillEvents(_, _, _, _)
FillEvents(data, engineEventIndex, frame, nframes) ==
    IF data = <<>> THEN <<>>
    ELSE LET ev == Head(data)
         IN  IF ~(ev.size > 0)
             THEN FillEvents(Tail(data), engineEventIndex, frame, nframes)
             ELSE << [type |-> "Midi", time |-> EngineEventTime(ev.time, frame, nframes),
                      size |-> ev.size, data |-> ev.data] >>
                  \o (IF BufferFull(engineEventIndex + 1)
                      THEN <<>>
                      ELSE FillEvents(Tail(data), engineEventIndex + 1, frame, nframes))

\* the messages one output event is sent as: one per open output endpoint
SendToAll(outs, i) ==
    [k \in 1..Len(outs) |-> <<"out", "send", outs[k].identifier, i>>]

\* variant of EndOfList: a Null entry is skipped like any other unknown type
EndOfList_Never(ev) == FALSE

\* engineEvent.type == kEngineEventTypeNull
EndOfList(ev) == ev.type = "Null"

\* the scan of pData->events.out from index i; size is the loop-carried variable
RECURSIVE FanOut(_, _, _, _)
FanOut(out, outs, i, size) ==
    IF i > Len(out) THEN <<>>
    ELSE LET ev == out[i]
         IN  IF EndOfList(ev) THEN <<>>
             ELSE IF ev.type = "Control"
             THEN (IF size > 0 THEN SendToAll(outs, i) ELSE <<>>)
                  \o FanOut(out, outs, i + 1, size)
             ELSE IF ev.type = "Midi"
             THEN (IF ev.size > 0 THEN SendToAll(outs, i) ELSE <<>>)
                  \o FanOut(out, outs, i + 1, ev.size)
             ELSE FanOut(out, outs, i + 1, size)

\* variant of PeriodValid: the period length is not compared with pData->bufferSize
PeriodValid_AnyLength(e, numSamples) == numSamples >= 0 /\ e.fDevice.outputs > 0

\* the CARLA_SAFE_ASSERT_RETURN tests at the top of the callback
PeriodValid(e, numSamples) ==
    numSamples >= 0 /\ e.fDevice.outputs > 0 /\ numSamples = e.pData.bufferSize

\* variant of DrainQueue: data.clear() is missing, the spliced events stay in data
DrainQueue_NoClear(q, locked) == IF locked THEN splice(q) ELSE q

\* variant of DrainQueue: the queue is emptied whether or not the lock was taken
DrainQueue_Always(q, locked) == [data |-> <<>>, dataPending |-> <<>>]

\* the queue after the tryLock block: emptied if the lock was taken
DrainQueue(q, locked) ==
    IF locked THEN [data |-> <<>>, dataPending |-> <<>>] ELSE q

\* locked: fMidiInEvents.mutex.tryLock() succeeded; out, samples: what
\* pData->graph.process() leaves in events.out and whether it wrote samples
audioDeviceIOCallback(e, numSamples, frame, out, samples, locked) ==
    IF ~PeriodValid(e, numSamples)
    THEN [e |-> e, ret |-> FALSE, callbacks |-> <<>>, ops |-> <<>>, error |-> "",
          graphEvents |-> <<>>, graphInvoked |-> FALSE, locked |-> FALSE,
          output |-> "stale"]
    ELSE LET q == splice(e.fMidiInEvents)
             in == IF locked THEN FillEvents(q.data, 0, frame, numSamples) ELSE <<>>
         IN  [e |-> [e EXCEPT !.fMidiInEvents = DrainQueue(@, locked)],
              ret |-> TRUE, callbacks |-> <<>>, error |-> "",
              ops |-> IF Len(e.fMidiOuts) > 0 THEN FanOut(out, e.fMidiOuts, 1, 0) ELSE <<>>,
              graphEvents |-> in, graphInvoked |-> TRUE, locked |-> locked,
              output |-> IF samples THEN "samples" ELSE "zeros"]

(***************************************************************************)
(* The device-type registry: initJuceDevicesIfNeeded(), EngineInit::newJuce *)
(***************************************************************************)
\* the type names in the order compareNatural puts them
TypeNames == <<"ALSA", "ASIO", "CoreAudio", "DirectSound", "JACK", "Windows Audio">>

\* what createAudioDeviceTypes() adds on a Linux and on a Windows build
LinuxTypes == <<"ALSA", "JACK">>
WindowsTypes == <<"Windows Audio", "DirectSound", "ASIO">>

\* the AudioApi values newJuce() switches over
AudioApis ==
    {"NULL", "JACK", "OSS", "ALSA", "PULSEAUDIO", "COREAUDIO", "ASIO", "DIRECTSOUND", "WASAPI"}

\* "remove JACK from device list": the first entry named JACK is removed
RemoveJack(types) ==
    IF \E i \in 1..Len(types) : types[i] = "JACK"
    THEN LET i == Min({k \in 1..Len(types) : types[k] = "JACK"})
         IN  SubSeq(types, 1, i - 1) \o SubSeq(types, i + 1, Len(types))
    ELSE types

\* gDeviceTypes.sort(comp): by type name
SortTypes(types) ==
    LET Count(n) == Cardinality({i \in 1..Len(types) : types[i] = n})
        RECURSIVE Build(_)
        Build(k) == IF k > Len(TypeNames) THEN <<>>
                    ELSE [i \in 1..Count(TypeNames[k]) |-> TypeNames[k]] \o Build(k + 1)
    IN  Build(1)

\* the registry one complete run of initJuceDevicesIfNeeded() leaves
Initialised(platform) == SortTypes(RemoveJack(platform))

\* the switch of newJuce(): the type name asked for, empty for NULL, OSS, PULSEAUDIO
JuceApiName(api) ==
    CASE api = "JACK" -> "JACK"
      [] api = "ALSA" -> "ALSA"
      [] api = "COREAUDIO" -> "CoreAudio"
      [] api = "ASIO" -> "ASIO"
      [] api = "DIRECTSOUND" -> "DirectSound"
      [] api = "WASAPI" -> "Windows Audio"
      [] OTHER -> ""

\* no engine / no device type
NullType == "nullptr"

\* the loop of newJuce(): deviceType is assigned every entry in turn and the
\* loop breaks at the first one named juceApi
FindType(types, juceApi) ==
    IF Len(types) = 0 THEN NullType
    ELSE IF \E i \in 1..Len(types) : types[i] = juceApi
    THEN types[Min({i \in 1..Len(types) : types[i] = juceApi})]
    ELSE types[Len(types)]

\* newJuce(api) after initJuceDevicesIfNeeded(): the type name the new engine
\* is bound to, NullType when nullptr is returned
newJuce(types, api) ==
    IF JuceApiName(api) = "" THEN NullType ELSE FindType(types, JuceApiName(api))

\* the registry's users before their first call
NoCallers(threads, platform, apis) ==
    [pc |-> [t \in threads |-> "idle"],
     call |-> [t \in threads |-> [op |-> "", api |-> "NULL"]],
     result |-> [t \in threads |-> [op |-> "", api |-> "NULL", engine |-> NullType,
                                     count |-> 0, types |-> <<>>]],
     created |-> 0, platform |-> platform, apis |-> apis]

(***************************************************************************)
(* The state machine.                                                      *)
(***************************************************************************)
\* the MIDI input thread outside handleIncomingMidiMessage()
IdleThread == [pc |-> "idle", midiEvent |-> [time |-> 0, size |-> 0,
                                             data |-> [i \in 1..kDataSize |-> 0]]]

\* the threads that use the engine, and its two mutexes: fMidiInEvents.mutex
\* ("queue") and fMidiOutMutex ("out")
Threads == {"render", "midi", "control"}

\* CarlaMutex::lock() / tryLock() success by thread t on mutex m
Lock(s, t, m) == [s EXCEPT !.held[t] = @ \cup {m}]

\* CarlaMutex::unlock()
Unlock(s, t, m) == [s EXCEPT !.held[t] = @ \ {m}]

\* nobody holds mutex m
Free(s, m) == \A t \in Threads : m \notin s.held[t]

\* no thread is inside an operation, no mutex is held
Unlocked ==
    [render |-> "idle", control |-> "idle", arg |-> "", held |-> [t \in Threads |-> {}]]

\* the engine as the constructor leaves it
NewEngine ==
    [fDevice |-> NoDevice,
     pData |-> [bufferSize |-> 0, sampleRate |-> 0, xruns |-> 0,
                options |-> [processMode |-> "CONTINUOUS_RACK"], graph |-> NoGraph],
     fMidiIns |-> <<>>,
     fMidiOuts |-> <<>>,
     fMidiInEvents |-> [data |-> <<>>, dataPending |-> <<>>],
     native |-> [ins |-> [id \in MidiIdentifiers |-> 0],
                 outs |-> [id \in MidiIdentifiers |-> 0]]]

Init ==
    /\ fDevice = NewEngine.fDevice
    /\ pData = NewEngine.pData
    /\ fMidiIns = NewEngine.fMidiIns
    /\ fMidiOuts = NewEngine.fMidiOuts
    /\ fMidiInEvents = NewEngine.fMidiInEvents
    /\ native = NewEngine.native
    /\ midiThread = IdleThread
    /\ sync = Unlocked
    /\ last = NoCall
    /\ prev = Summary(NoCall)
    /\ gDeviceTypes = Initialised(LinuxTypes)
    /\ juce = NoCallers({}, LinuxTypes, {})

\* the call record of an operation: what it returned and did
Call(op, r) ==
    [NoCall EXCEPT !.op = op, !.ret = r.ret, !.callbacks = r.callbacks, !.ops = r.ops,
                   !.error = r.error]

CommitSync(e, call, s) ==
    /\ midiThread' = midiThread
    /\ sync' = s
    /\ fDevice' = e.fDevice
    /\ pData' = e.pData
    /\ fMidiIns' = e.fMidiIns
    /\ fMidiOuts' = e.fMidiOuts
    /\ fMidiInEvents' = e.fMidiInEvents
    /\ native' = e.native
    /\ last' = call
    /\ prev' = Summary(last)
    /\ UNCHANGED <<gDeviceTypes, juce>>

\* an operation taken as one step: the threads stay where they are
Commit(e, call) == CommitSync(e, call, sync)

\* the control thread calls init() on an engine that is not running; the
\* options it reads were set by the caller beforehand
InitCall(deviceOptions) ==
    /\ ~isRunning(Engine)
    /\ \E processMode \in ProcessModes, clientName \in ClientNames,
          audioDevice \in deviceOptions,
          defaultIndex \in DefaultIndices, sampleRate \in RequestSampleRates,
          bufferSize \in RequestBufferSizes, openOk \in BOOLEAN, dataInitOk \in BOOLEAN :
          \* pData->init() is reached only once the device is open
          /\ ~openOk => dataInitOk
          /\ LET e0 == [Engine EXCEPT !.pData.options.processMode = processMode]
                 r == init(e0, clientName, audioDevice, defaultIndex, sampleRate,
                           bufferSize, openOk, dataInitOk)
             IN  Commit(r.e, [Call("init", r) EXCEPT !.name = clientName])

DoInit == InitCall(AudioDeviceOptions)

DoInitXruns == InitCall(XrunDeviceOptions)

DoClose ==
    \E r \in {close(Engine)} :
       Commit(r.e, [Call("close", r) EXCEPT !.pre.hasDevice = fDevice.exists,
                                            !.pre.isPlaying = fDevice.isPlaying,
                                            !.pre.isRunning = isRunning(Engine)])

DoSetBufferSizeAndSampleRate ==
    \E bufferSize \in RequestBufferSizes, sampleRate \in RequestSampleRates,
       openOk \in BOOLEAN, rollbackOk \in BOOLEAN :
       \* the outcome of the rollback open is drawn only when it is attempted
       /\ openOk => rollbackOk
       /\ LET r == setBufferSizeAndSampleRate(Engine, bufferSize, sampleRate,
                                              openOk, rollbackOk)
          IN  Commit(r.e, [Call("setBufferSizeAndSampleRate", r) EXCEPT
                            !.bufferSize = bufferSize, !.sampleRate = sampleRate,
                            !.openOk = openOk, !.rollbackOk = rollbackOk,
                            !.pre = Pre(Engine)])

\* the graph layer connects and disconnects endpoints while the graph exists
DoConnectMidiInput ==
    /\ pData.graph.isReady
    /\ Len(fMidiIns) < MaxEndpoints
    /\ \E portName \in PortNames :
          LET r == connectMidiInput(Engine, portName)
          IN  Commit(r.e, [Call("connectMidiInput", r) EXCEPT !.name = portName])

DoConnectMidiOutput ==
    /\ pData.graph.isReady
    /\ Len(fMidiOuts) < MaxEndpoints
    /\ \E portName \in PortNames :
          LET r == connectMidiOutput(Engine, portName)
          IN  Commit(r.e, [Call("connectMidiOutput", r) EXCEPT !.name = portName])

DoDisconnectMidiInput ==
    /\ pData.graph.isReady
    /\ \E portName \in PortNames :
          LET r == disconnectMidiInput(Engine, portName)
          IN  Commit(r.e, [Call("disconnectMidiInput", r) EXCEPT !.name = portName])

DoDisconnectMidiOutput ==
    /\ pData.graph.isReady
    /\ \E portName \in PortNames :
          LET r == disconnectMidiOutput(Engine, portName)
          IN  Commit(r.e, [Call("disconnectMidiOutput", r) EXCEPT !.name = portName])

DoPatchbayRefresh ==
    /\ pData.graph.extGraph.lastId + Len(fMidiIns) + Len(fMidiOuts) <= MaxConnId
    /\ \E sendHost \in BOOLEAN, external \in BOOLEAN :
          LET r == patchbayRefresh(Engine, sendHost, FALSE, external)
          IN  Commit(r.e, [Call("patchbayRefresh", [ret |-> r.ret, callbacks |-> r.callbacks,
                                                    ops |-> <<>>, error |-> ""])
                               EXCEPT !.name = IF external THEN "external" ELSE "internal"])

\* a started MIDI input delivers a message on its own thread
MidiInputCallback ==
    /\ Len(fMidiInEvents.dataPending) < MaxPending
    /\ \E id \in MidiIdentifiers, message \in MidiMessages :
          \* the source is a started MidiInput that has not been deleted
          /\ native.ins[id] > 0
          /\ LET e1 == handleIncomingMidiMessage(Engine, message)
             IN  Commit(e1, [NoCall EXCEPT !.op = "handleIncomingMidiMessage",
                                           !.value = Len(message), !.name = id])

\* what the graph may leave in pData->events.out: the array is zeroed (all
\* Null) before the graph runs, the graph fills a prefix
NullEvent == [type |-> "Null", size |-> 0]

EventsOut(filled) ==
    [i \in 1..kMaxEngineEventInternalCount |->
        IF i <= Len(filled) THEN filled[i] ELSE NullEvent]

GraphOutputs ==
    { EventsOut(<<>>),
      EventsOut(<< [type |-> "Midi", size |-> 3] >>),
      EventsOut(<< [type |-> "Control", size |-> 0], [type |-> "Midi", size |-> 3] >>),
      EventsOut(<< [type |-> "Other", size |-> 0], [type |-> "Control", size |-> 0] >>) }

\* outputs in which the graph left a Null entry before a later event
RenderOutputs ==
    GraphOutputs \cup
    { [i \in 1..kMaxEngineEventInternalCount |->
          IF i = 1 THEN NullEvent ELSE [type |-> "Midi", size |-> 3]] }

\* the device thread delivers one period to the registered callback; the
\* tryLock fails while the MIDI input thread is inside append()
\* variant of WaitsForQueue: the mutex is taken with lock(), which waits for
\* a producer inside append()
WaitsForQueue_Blocking(thread) == thread.pc = "append"

\* fMidiInEvents.mutex.tryLock() returns at once, whoever holds the mutex
WaitsForQueue(thread) == FALSE

AudioCallbackOver(outputs, sampleChoices) ==
    /\ fDevice.exists /\ fDevice.isPlaying /\ fDevice.callback = "engine"
    /\ ~WaitsForQueue(midiThread)
    /\ \E numSamples \in {fDevice.bufferSize, 1}, frame \in Frames, out \in outputs,
          samples \in sampleChoices :
          LET r == audioDeviceIOCallback(Engine, numSamples, frame, out, samples,
                                         midiThread.pc = "idle")
          IN  Commit(r.e, [Call("audioDeviceIOCallback", r) EXCEPT
                               !.graphEvents = r.graphEvents, !.value = numSamples,
                               !.graphInvoked = r.graphInvoked, !.locked = r.locked,
                               !.output = r.output,
                               \* events.out as far as the output loop looked at it
                               !.out = IF r.graphInvoked /\ Len(fMidiOuts) > 0
                                       THEN out ELSE <<>>,
                               !.queued = Len(fMidiInEvents.data)
                                          + Len(fMidiInEvents.dataPending)])

AudioCallback == AudioCallbackOver(GraphOutputs, {TRUE})

RenderCallback == AudioCallbackOver(RenderOutputs, BOOLEAN)

\* the MIDI input thread enters append(): the message passed the size test and
\* the thread holds fMidiInEvents.mutex
MidiInputLock ==
    /\ midiThread.pc = "idle"
    /\ Free(sync, "queue")
    /\ sync' = Lock(sync, "midi", "queue")
    /\ \E id \in MidiIdentifiers : native.ins[id] > 0
    /\ Len(fMidiInEvents.dataPending) <= kMaxEngineEventInternalCount
    /\ \E message \in MidiMessages :
          /\ Len(message) > 0 /\ Len(message) <= kDataSize
          /\ midiThread' = [pc |-> "append", midiEvent |-> RtMidiEventOf(message)]
    /\ last' = [NoCall EXCEPT !.op = "lock"]
    /\ prev' = Summary(last)
    /\ UNCHANGED <<fDevice, pData, fMidiIns, fMidiOuts, fMidiInEvents, native>>
    /\ UNCHANGED <<gDeviceTypes, juce>>

\* the MIDI input thread appends its event to dataPending and unlocks
MidiInputAppend ==
    /\ midiThread.pc = "append"
    /\ fMidiInEvents' = [fMidiInEvents EXCEPT
                            !.dataPending = Append(@, midiThread.midiEvent)]
    /\ midiThread' = IdleThread
    /\ sync' = Unlock(sync, "midi", "queue")
    /\ last' = [NoCall EXCEPT !.op = "handleIncomingMidiMessage",
                              !.value = midiThread.midiEvent.size]
    /\ prev' = Summary(last)
    /\ UNCHANGED <<fDevice, pData, fMidiIns, fMidiOuts, native>>
    /\ UNCHANGED <<gDeviceTypes, juce>>

\* init() with no configured device name: the default device is used
DoInitDefault == InitCall({""})

\* timestamps a raw event may carry and period starts the transport may be at
RawTimes == 0..12
PeriodStarts == {0, 2, 4, 8}

\* a started engine whose queue holds one raw event stamped time: the clamping
\* code of the callback is applied to every timestamp, although
\* handleIncomingMidiMessage() stamps every event 0 so far
InitClamp ==
    \E time \in RawTimes, bufferSize \in DeviceBufferSizes :
       LET r == init(NewEngine, "Carla", "", 0, Min(DeviceSampleRates), bufferSize, TRUE, TRUE)
           ev == [RtMidiEventOf(<<248>>) EXCEPT !.time = time]
       IN  /\ fDevice = r.e.fDevice
           /\ pData = r.e.pData
           /\ fMidiIns = r.e.fMidiIns
           /\ fMidiOuts = r.e.fMidiOuts
           /\ fMidiInEvents = [data |-> <<>>, dataPending |-> <<ev>>]
           /\ native = r.e.native
           /\ midiThread = IdleThread
           /\ sync = Unlocked
           /\ last = Call("init", r)
           /\ prev = Summary(NoCall)
           /\ gDeviceTypes = Initialised(LinuxTypes)
           /\ juce = NoCallers({}, LinuxTypes, {})

\* one period delivered at period start frame
ClampCallback ==
    /\ fDevice.exists /\ fDevice.isPlaying /\ fDevice.callback = "engine"
    /\ \E frame \in PeriodStarts :
          LET queued == fMidiInEvents.data \o fMidiInEvents.dataPending
              r == audioDeviceIOCallback(Engine, fDevice.bufferSize, frame,
                                         EventsOut(<<>>), TRUE, TRUE)
          IN  Commit(r.e, [Call("audioDeviceIOCallback", r) EXCEPT
                               !.graphEvents = r.graphEvents,
                               !.value = fDevice.bufferSize,
                               !.graphInvoked = r.graphInvoked, !.locked = r.locked,
                               !.output = r.output,
                               !.queued = Len(queued),
                               !.frame = frame,
                               !.time = IF queued # <<>> THEN queued[1].time ELSE 0])

\* the hardware reports one more buffer under/overrun
DeviceXrun ==
    /\ fDevice.exists /\ fDevice.isPlaying
    /\ fDevice.xruns >= 0 /\ fDevice.xruns < MaxXruns
    /\ Commit([Engine EXCEPT !.fDevice.xruns = @ + 1], [NoCall EXCEPT !.op = "xrun"])

DoGetTotalXruns ==
    /\ fDevice.exists
    /\ Commit(Engine, [NoCall EXCEPT !.op = "getTotalXruns",
                                     !.value = getTotalXruns(Engine)])

DoClearXruns ==
    /\ fDevice.exists
    /\ Commit(clearXruns(Engine), [NoCall EXCEPT !.op = "clearXruns"])

(***************************************************************************)
\* handleIncomingMidiMessage() called by a started MidiInput while the transport
\* stands in the period that began at last.frame; the record keeps that frame
\* and the time stamped on the appended event
MidiInputArrival ==
    /\ Len(fMidiInEvents.dataPending) < MaxPending
    /\ \E id \in MidiIdentifiers, message \in MidiMessages :
          /\ native.ins[id] > 0
          /\ LET e1 == handleIncomingMidiMessage(Engine, message)
                 q == e1.fMidiInEvents.dataPending
             IN  Commit(e1, [NoCall EXCEPT !.op = "handleIncomingMidiMessage",
                                           !.value = Len(message), !.name = id,
                                           !.frame = last.frame,
                                           !.time = IF e1 # Engine THEN q[Len(q)].time
                                                    ELSE 0])

\* messages arriving between periods that start at different transport frames
NextArrival ==
    \/ DoInitDefault
    \/ DoConnectMidiInput
    \/ MidiInputArrival
    \/ ClampCallback

SpecArrival == Init /\ [][NextArrival]_vars

\* a started engine in patchbay mode with the input "kbd" connected and one
\* raw event stamped time already pending: the order of the drain is taken
\* over queues whose events carry different timestamps
InitOrder ==
    \E time \in RawTimes, bufferSize \in DeviceBufferSizes :
       LET e0 == [NewEngine EXCEPT !.pData.options.processMode = "PATCHBAY"]
           r == init(e0, "Carla", "", 0, Min(DeviceSampleRates), bufferSize, TRUE, TRUE)
           c == connectMidiInput(r.e, "kbd")
           ev == [RtMidiEventOf(<<248>>) EXCEPT !.time = time]
       IN  /\ fDevice = c.e.fDevice
           /\ pData = c.e.pData
           /\ fMidiIns = c.e.fMidiIns
           /\ fMidiOuts = c.e.fMidiOuts
           /\ fMidiInEvents = [data |-> <<>>, dataPending |-> <<ev>>]
           /\ native = c.e.native
           /\ midiThread = IdleThread
           /\ sync = Unlocked
           /\ last = [Call("connectMidiInput", c) EXCEPT !.name = "kbd"]
           /\ prev = Summary(NoCall)
           /\ gDeviceTypes = Initialised(LinuxTypes)
           /\ juce = NoCallers({}, LinuxTypes, {})

\* producers appending behind an event of any timestamp, periods draining
NextOrder ==
    \/ MidiInputLock
    \/ MidiInputAppend
    \/ AudioCallback

SpecOrder == InitOrder /\ [][NextOrder]_vars

(* The same operations step by step: the device thread inside              *)
(* audioDeviceIOCallback, the control thread inside the operations that    *)
(* use fMidiOutMutex or fMidiInEvents.mutex.                               *)
(***************************************************************************)
\* a step of one thread: the engine after it, what it did, where the threads are
Step(e, op, s) == CommitSync(e, [NoCall EXCEPT !.op = op], s)

\* the device thread enters the callback for a period of pData->bufferSize
\* frames and tries the queue mutex
RenderTryLock ==
    /\ fDevice.exists /\ fDevice.isPlaying /\ fDevice.callback = "engine"
    /\ PeriodValid(Engine, fDevice.bufferSize)
    /\ sync.render = "idle"
    /\ IF Free(sync, "queue")
       THEN Step(Engine, "render.tryLock",
                 [Lock(sync, "render", "queue") EXCEPT !.render = "drain"])
       ELSE Step(Engine, "render.tryLock", [sync EXCEPT !.render = "process"])

\* splice(), the loop over data, data.clear(), mutex.unlock()
RenderDrain ==
    /\ sync.render = "drain"
    /\ Step([Engine EXCEPT !.fMidiInEvents = DrainQueue(@, TRUE)], "render.drain",
            [Unlock(sync, "render", "queue") EXCEPT !.render = "process"])

\* pData->graph.process(), then fMidiOutMutex.lock()
RenderProcess ==
    /\ sync.render = "process"
    /\ Free(sync, "out")
    /\ Step(Engine, "render.process", [Lock(sync, "render", "out") EXCEPT !.render = "fanout"])

\* the output loop over events.out and fMidiOuts, then fMidiOutMutex.unlock()
RenderFanOut ==
    /\ sync.render = "fanout"
    /\ \E out \in GraphOutputs :
          CommitSync(Engine,
                     [NoCall EXCEPT !.op = "render.fanOut",
                                    !.ops = IF Len(fMidiOuts) > 0
                                            THEN FanOut(out, fMidiOuts, 1, 0) ELSE <<>>],
                     [Unlock(sync, "render", "out") EXCEPT !.render = "idle"])

\* the control thread is between two operations
ControlIdle == sync.control = "idle"

\* the control thread moves to position pc of the operation called with arg
Enter(s, pc, arg) == [s EXCEPT !.control = pc, !.arg = arg]

\* the control thread returns from its operation
Return(s) == [s EXCEPT !.control = "idle", !.arg = ""]

\* the names the control thread asks for: an output that exists, one that does not
OutputNames == {"synth", "none"}

\* connectExternalGraphPort, output: the device is opened and its thread
\* started, then fMidiOutMutex is taken; an unknown name returns at once
ConnectOutBegin ==
    /\ ControlIdle /\ pData.graph.isReady /\ Len(fMidiOuts) < MaxEndpoints
    /\ \E portName \in OutputNames :
          LET r == connectMidiOutput(Engine, portName)
          IN  IF ~r.ret
              THEN CommitSync(Engine, [Call("connectMidiOutput", r) EXCEPT !.name = portName],
                              sync)
              ELSE /\ Free(sync, "out")
                   /\ Step([Engine EXCEPT !.native = r.e.native], "connectOut.lock",
                           Enter(Lock(sync, "control", "out"), "connectOut", portName))

\* fMidiOuts.append(midiPort) under the mutex, then return true
ConnectOutEnd ==
    /\ sync.control = "connectOut"
    /\ LET r == connectMidiOutput(Engine, sync.arg)
       IN  CommitSync([Engine EXCEPT !.fMidiOuts = r.e.fMidiOuts],
                      [Call("connectMidiOutput", r) EXCEPT !.name = sync.arg],
                      Return(Unlock(sync, "control", "out")))

\* variant of DisconnectOutLock: the output registry is walked without the mutex
DisconnectOutLock_Missing(s) == [ok |-> TRUE, s |-> s]

\* const CarlaMutexLocker cml(fMidiOutMutex) of the output disconnect: whether
\* the thread gets past it, and the mutexes held after it
DisconnectOutLock(s) == [ok |-> Free(s, "out"), s |-> Lock(s, "control", "out")]

\* disconnectExternalGraphPort, output: the mutex is taken before the loop
DisconnectOutBegin ==
    /\ ControlIdle /\ pData.graph.isReady
    /\ DisconnectOutLock(sync).ok
    /\ \E portName \in OutputNames :
          Step(Engine, "disconnectOut.lock",
               Enter(DisconnectOutLock(sync).s, "disconnectOut", portName))

\* the loop finds the entry, stops its thread and deletes the handle; with no
\* entry of that name the call returns false
DisconnectOutRelease ==
    /\ sync.control = "disconnectOut"
    /\ LET i == FirstNamed(fMidiOuts, sync.arg)
       IN  IF i = 0
           THEN CommitSync(Engine,
                           [Call("disconnectMidiOutput", disconnectMidiOutput(Engine, sync.arg))
                               EXCEPT !.name = sync.arg],
                           Return(Unlock(sync, "control", "out")))
           ELSE Step([Engine EXCEPT !.native.outs =
                                       ReleaseHandle(@, fMidiOuts[i].identifier)],
                     "disconnectOut.delete",
                     [sync EXCEPT !.control = "disconnectOutRemove"])

\* fMidiOuts.remove(it), return true
DisconnectOutRemove ==
    /\ sync.control = "disconnectOutRemove"
    /\ Step([Engine EXCEPT !.fMidiOuts = RemoveAt(@, FirstNamed(fMidiOuts, sync.arg))],
            "disconnectMidiOutput", Return(Unlock(sync, "control", "out")))

\* refreshExternalGraphPorts up to fMidiOutMutex.lock(): the ports and the
\* input connections are rebuilt by the control thread alone
RefreshBegin ==
    /\ ControlIdle /\ pData.graph.isReady
    /\ pData.graph.extGraph.lastId + Len(fMidiIns) + Len(fMidiOuts) <= MaxConnId
    /\ Free(sync, "out")
    /\ Step(Engine, "refresh.lock", Enter(Lock(sync, "control", "out"), "refreshOut", ""))

\* the output connections are added under the mutex, then it is released
RefreshEnd ==
    /\ sync.control = "refreshOut"
    /\ \E sendHost \in BOOLEAN :
          LET r == patchbayRefresh(Engine, sendHost, FALSE, TRUE)
          IN  CommitSync(r.e,
                         [Call("patchbayRefresh", [ret |-> r.ret, callbacks |-> r.callbacks,
                                                   ops |-> <<>>, error |-> ""])
                             EXCEPT !.name = "external"],
                         Return(Unlock(sync, "control", "out")))

\* fDevice->stop() returns once no callback is running or will start
DeviceQuiet(d, s) == d.exists /\ d.isPlaying => s.render = "idle"

\* close() up to the mutex.lock() inside fMidiInEvents.clear(): the stream is
\* stopped, the graph destroyed, the inputs stopped and deleted, fMidiIns cleared
CloseStop ==
    /\ ControlIdle /\ fDevice.exists
    /\ DeviceQuiet(fDevice, sync)
    /\ midiThread.pc = "idle"
    /\ Free(sync, "queue")
    /\ Step([Engine EXCEPT !.fDevice = StopFirst(@),
                           !.pData = GraphDestroy(@),
                           !.native.ins = StopAndDelete(fMidiIns, @, "in").handles,
                           !.fMidiIns = <<>>],
            "close.stop", Enter(Lock(sync, "control", "queue"), "closeQueue", ""))

\* variant of ClearEventsDone: clear() returns with the queue mutex still held
ClearEventsDone_StillLocked(s) == s

\* the end of fMidiInEvents.clear(): mutex.unlock()
ClearEventsDone(s) == Unlock(s, "control", "queue")

\* data.clear(), dataPending.clear(), mutex.unlock()
CloseQueue ==
    /\ sync.control = "closeQueue"
    /\ Step([Engine EXCEPT !.fMidiInEvents = [data |-> <<>>, dataPending |-> <<>>]],
            "close.clear", [ClearEventsDone(sync) EXCEPT !.control = "closeLockOut"])

\* fMidiOutMutex.lock()
CloseLockOut ==
    /\ sync.control = "closeLockOut"
    /\ Free(sync, "out")
    /\ Step(Engine, "close.lock", [Lock(sync, "control", "out") EXCEPT !.control = "closeOut"])

\* the outputs are stopped and deleted, fMidiOuts cleared, the mutex released,
\* the stream closed
CloseOut ==
    /\ sync.control = "closeOut"
    /\ LET r == close(Engine)
       IN  CommitSync(r.e, Call("close", r), Return(Unlock(sync, "control", "out")))

\* setBufferSizeAndSampleRate up to the first open(): the stream is stopped
\* and closed
ReconfigureStop ==
    /\ ControlIdle /\ fDevice.exists /\ fDevice.outputs > 0
    /\ DeviceQuiet(fDevice, sync)
    /\ Step([Engine EXCEPT !.fDevice = StopStream(@)], "reconfigure.stop",
            Enter(sync, "reconfigure", ""))

\* the open with the new values and all that follows it
ReconfigureOpen ==
    /\ sync.control = "reconfigure"
    /\ \E bufferSize \in DeviceBufferSizes, sampleRate \in {Min(DeviceSampleRates)},
          openOk \in BOOLEAN, rollbackOk \in BOOLEAN :
          /\ openOk => rollbackOk
          \* the fatal branch runs close(), which takes both mutexes in turn
          /\ ~rollbackOk => Free(sync, "queue") /\ Free(sync, "out")
          /\ LET r == setBufferSizeAndSampleRate(Engine, bufferSize, sampleRate,
                                                 openOk, rollbackOk)
             IN  CommitSync(r.e, [Call("setBufferSizeAndSampleRate", r) EXCEPT
                                      !.openOk = openOk, !.rollbackOk = rollbackOk],
                            Return(sync))

\* init() on the default device in patchbay mode, as one step of the control
\* thread: no other thread of the engine exists before init() returns
ThreadsInit ==
    /\ ControlIdle /\ ~isRunning(Engine)
    /\ \E bufferSize \in DeviceBufferSizes, openOk \in BOOLEAN :
          LET e0 == [Engine EXCEPT !.pData.options.processMode = "PATCHBAY"]
              r == init(e0, "Carla", "", 0, Min(DeviceSampleRates), bufferSize, openOk, TRUE)
          IN  Commit(r.e, [Call("init", r) EXCEPT !.name = "Carla"])

\* the connect of the input "kbd" as a single step of the control thread
ThreadsConnectInput ==
    /\ ControlIdle /\ pData.graph.isReady
    /\ Len(fMidiIns) < MaxEndpoints
    /\ LET r == connectMidiInput(Engine, "kbd")
       IN  Commit(r.e, [Call("connectMidiInput", r) EXCEPT !.name = "kbd"])

\* a message that fails the size test: the handler returns before append()
MidiInputRejected ==
    /\ midiThread.pc = "idle"
    /\ \E id \in MidiIdentifiers : native.ins[id] > 0
    /\ \E message \in MidiMessages :
          /\ Len(message) <= 0 \/ Len(message) > kDataSize
          /\ Commit(handleIncomingMidiMessage(Engine, message),
                    [NoCall EXCEPT !.op = "handleIncomingMidiMessage",
                                   !.value = Len(message)])

\* the MIDI input thread enters the handler while the queue has room
ThreadsMidiLock == Len(fMidiInEvents.dataPending) < MaxPending /\ MidiInputLock

\* one engine with its three threads interleaved step by step
NextThreads ==
    \/ ThreadsInit
    \/ ThreadsConnectInput
    \/ ThreadsMidiLock
    \/ MidiInputRejected
    \/ MidiInputAppend
    \/ RenderTryLock
    \/ RenderDrain
    \/ RenderProcess
    \/ RenderFanOut
    \/ ConnectOutBegin
    \/ ConnectOutEnd
    \/ DisconnectOutBegin
    \/ DisconnectOutRelease
    \/ DisconnectOutRemove
    \/ RefreshBegin
    \/ RefreshEnd
    \/ CloseStop
    \/ CloseQueue
    \/ CloseLockOut
    \/ CloseOut
    \/ ReconfigureStop
    \/ ReconfigureOpen

SpecThreads == Init /\ [][NextThreads]_vars

\* the device lifecycle with the MIDI endpoints, the event queue and the render callback
Next ==
    \/ DoInit
    \/ DoClose
    \/ DoSetBufferSizeAndSampleRate
    \/ DoConnectMidiInput
    \/ DoConnectMidiOutput
    \/ MidiInputCallback
    \/ AudioCallback

Spec == Init /\ [][Next]_vars

\* the device lifecycle with the xrun counters
NextXruns ==
    \/ DoInitXruns
    \/ DoClose
    \/ DoSetBufferSizeAndSampleRate
    \/ DeviceXrun
    \/ DoGetTotalXruns
    \/ DoClearXruns

SpecXruns == Init /\ [][NextXruns]_vars

\* one engine session with the patchbay: endpoints come and go, the registry is refreshed
NextPatchbay ==
    \/ DoInit
    \/ DoClose
    \/ DoConnectMidiInput
    \/ DoConnectMidiOutput
    \/ DoDisconnectMidiInput
    \/ DoDisconnectMidiOutput
    \/ DoPatchbayRefresh

SpecPatchbay == Init /\ [][NextPatchbay]_vars

\* one engine session with endpoints that come and go while MIDI is delivered
\* and rendered
NextEndpoints ==
    \/ DoInitDefault
    \/ DoConnectMidiInput
    \/ DoConnectMidiOutput
    \/ DoDisconnectMidiInput
    \/ DoDisconnectMidiOutput
    \/ MidiInputCallback
    \/ AudioCallback

SpecEndpoints == Init /\ [][NextEndpoints]_vars

\* one engine session seen from the render callback: the MIDI input thread
\* interleaves with the device thread
NextRender ==
    \/ DoInitDefault
    \/ DoConnectMidiInput
    \/ DoConnectMidiOutput
    \/ MidiInputLock
    \/ MidiInputAppend
    \/ RenderCallback

SpecRender == Init /\ [][NextRender]_vars

\* the callback's timestamp clamping over raw timestamps and period starts
NextClamp == ClampCallback

SpecClamp == InitClamp /\ [][NextClamp]_vars

(***************************************************************************)
(* The registry's users: threads calling getJuceApiCount() or newJuce(),   *)
(* each of which runs initJuceDevicesIfNeeded() first.                     *)
(***************************************************************************)
\* the most times createAudioDeviceTypes() is followed
MaxCreates == 2

\* a step of a registry user: the engine is left alone
RegistryStep(types, j) ==
    /\ gDeviceTypes' = types
    /\ juce' = j
    /\ UNCHANGED <<fDevice, pData, fMidiIns, fMidiOuts, fMidiInEvents, native>>
    /\ UNCHANGED <<midiThread, sync, last, prev>>

\* a thread calls getJuceApiCount() or newJuce(api)
JuceCall ==
    \E t \in DOMAIN juce.pc :
       /\ juce.pc[t] = "idle"
       /\ \E op \in {"getJuceApiCount", "newJuce"}, api \in juce.apis :
             /\ op = "getJuceApiCount" => api = CHOOSE a \in juce.apis : TRUE
             /\ RegistryStep(gDeviceTypes,
                             [juce EXCEPT !.pc[t] = "test",
                                          !.call[t] = [op |-> op, api |-> api]])

\* if (gDeviceTypes.size() != 0) return;
NeedsInit(types) == Len(types) = 0

JuceTest ==
    \E t \in DOMAIN juce.pc :
       /\ juce.pc[t] = "test"
       /\ RegistryStep(gDeviceTypes,
                       [juce EXCEPT !.pc[t] = IF NeedsInit(gDeviceTypes) THEN "create"
                                              ELSE "ready"])

\* sDeviceManager.createAudioDeviceTypes(gDeviceTypes) adds the platform's
\* types to the array; an array still empty ends the initialisation
JuceCreate ==
    \E t \in DOMAIN juce.pc :
       /\ juce.pc[t] = "create"
       /\ juce.created < MaxCreates
       /\ LET types == gDeviceTypes \o juce.platform
          IN  RegistryStep(types,
                           [juce EXCEPT !.created = @ + 1,
                                        !.pc[t] = IF Len(types) # 0 THEN "filter" ELSE "ready"])

\* the loop that removes JACK
JuceFilter ==
    \E t \in DOMAIN juce.pc :
       /\ juce.pc[t] = "filter"
       /\ RegistryStep(RemoveJack(gDeviceTypes), [juce EXCEPT !.pc[t] = "sort"])

\* gDeviceTypes.sort(comp), return
JuceSort ==
    \E t \in DOMAIN juce.pc :
       /\ juce.pc[t] = "sort"
       /\ RegistryStep(SortTypes(gDeviceTypes), [juce EXCEPT !.pc[t] = "ready"])

\* the rest of the call after initJuceDevicesIfNeeded() has returned: the
\* size of the registry, or the engine newJuce() creates
JuceReturn ==
    \E t \in DOMAIN juce.pc :
       /\ juce.pc[t] = "ready"
       /\ LET c == juce.call[t]
              r == [op |-> c.op, api |-> c.api, types |-> gDeviceTypes,
                    count |-> IF c.op = "getJuceApiCount" THEN Len(gDeviceTypes) ELSE 0,
                    engine |-> IF c.op = "newJuce" THEN newJuce(gDeviceTypes, c.api)
                               ELSE NullType]
          IN  RegistryStep(gDeviceTypes, [juce EXCEPT !.pc[t] = "idle", !.result[t] = r])

\* a process that has not used the registry yet
InitJuce(threads, platforms, apis) ==
    /\ fDevice = NewEngine.fDevice
    /\ pData = NewEngine.pData
    /\ fMidiIns = NewEngine.fMidiIns
    /\ fMidiOuts = NewEngine.fMidiOuts
    /\ fMidiInEvents = NewEngine.fMidiInEvents
    /\ native = NewEngine.native
    /\ midiThread = IdleThread
    /\ sync = Unlocked
    /\ last = NoCall
    /\ prev = Summary(NoCall)
    /\ gDeviceTypes = <<>>
    /\ \E platform \in platforms : juce = NoCallers(threads, platform, apis)

NextJuce ==
    \/ JuceCall
    \/ JuceTest
    \/ JuceCreate
    \/ JuceFilter
    \/ JuceSort
    \/ JuceReturn

\* one thread asking for engines of every API, on a Linux build, a Windows
\* build and a build that offers no device type
InitFactory == InitJuce({"a"}, {LinuxTypes, WindowsTypes, <<>>}, AudioApis)

SpecFactory == InitFactory /\ [][NextJuce]_vars

\* two threads making their first use of the registry at the same time
InitRegistry == InitJuce({"a", "b"}, {LinuxTypes, WindowsTypes}, {"ALSA"})

SpecRegistry == InitRegistry /\ [][NextJuce]_vars

(***************************************************************************)
(* Properties of the device lifecycle                                      *)
(***************************************************************************)
\* no native MIDI handle is alive
NoNativeHandles ==
    \A id \in MidiIdentifiers : native.ins[id] = 0 /\ native.outs[id] = 0

\* the device is open, playing, and calls back into the engine
Playing ==
    /\ fDevice.exists /\ fDevice.isOpen /\ fDevice.isPlaying
    /\ fDevice.callback = "engine"

\* no device is open or playing, no callback is registered, isRunning() is false
Closed ==
    /\ ~fDevice.isOpen /\ ~fDevice.isPlaying
    /\ fDevice.callback = "none"
    /\ ~isRunning(Engine)

ReconfigureOp == "setBufferSizeAndSampleRate"

\* C1: a successful init() leaves the device open and playing with the engine
\* registered as its callback, and in every reachable state a playing device
\* has the engine registered as its callback.
C1_OpenLeavesPlaying ==
    /\ (last.op = "init" /\ last.ret) => Playing
    /\ fDevice.isPlaying => fDevice.callback = "engine"

C1_Witness == last.op = "init" /\ last.ret /\ fDevice.isPlaying

\* C2: every init() that returns false leaves the engine closed: no device is
\* open or playing, no callback is registered and isRunning() is false.
C2_FailedOpenLeavesClosed == (last.op = "init" /\ ~last.ret) => Closed

C2_Witness ==
    last.op = "init" /\ ~last.ret /\ last.error = "Failed to init internal data"

\* the operations of a call on a device or on an endpoint's native handle
HandleOps(ops) ==
    LET OnHandle(op) == op[2] \notin {"clear", "lock", "unlock"}
    IN  SelectSeq(ops, OnHandle)

\* C3: close() on an engine that holds no device touches no device or MIDI
\* handle and leaves the engine closed, and a close() directly after a close()
\* changes nothing.
C3_CloseIdempotent ==
    /\ [](last.op = "close" /\ ~last.pre.hasDevice
            => HandleOps(last.ops) = <<>> /\ Closed /\ fDevice = NoDevice /\ NoNativeHandles)
    /\ [][last.op = "close" /\ last'.op = "close"
            => /\ HandleOps(last'.ops) = <<>>
               /\ <<fDevice, pData, fMidiIns, fMidiOuts, fMidiInEvents, native>>'
                    = <<fDevice, pData, fMidiIns, fMidiOuts, fMidiInEvents, native>>]_vars

C3_Witness == last.op = "close" /\ prev.op = "close" /\ ~last.pre.hasDevice

\* C4: a setBufferSizeAndSampleRate() call made while the device is playing
\* ends with the device playing again or with the engine closed and the device
\* released.
C4_ReconfigureEndsPlayingOrClosed ==
    (last.op = ReconfigureOp /\ last.pre.isPlaying)
        => (Playing \/ (Closed /\ fDevice = NoDevice))

\* C5: when the open with the new values fails and the rollback open succeeds,
\* setBufferSizeAndSampleRate() returns false, the engine and the device hold
\* the buffer size and sample rate they held before the call, and no
\* notification is sent.
C5_RollbackKeepsParameters ==
    (last.op = ReconfigureOp /\ last.error = "device open error" /\ last.rollbackOk)
        => /\ ~last.ret
           /\ pData.bufferSize = last.pre.bufferSize
           /\ pData.sampleRate = last.pre.sampleRate
           /\ fDevice.isOpen
           /\ fDevice.bufferSize = last.pre.devBufferSize
           /\ fDevice.sampleRate = last.pre.devSampleRate
           /\ last.callbacks = <<>>

C5_Witness ==
    /\ last.op = ReconfigureOp /\ last.error = "device open error" /\ last.rollbackOk
    /\ last.bufferSize # last.pre.bufferSize
    /\ last.sampleRate # last.pre.sampleRate
    /\ last.pre.bufferSize = Max(DeviceBufferSizes)

\* C6: when the open with the new values and the rollback open both fail,
\* setBufferSizeAndSampleRate() returns false with the device released, every
\* MIDI endpoint stopped and deleted, and the render callback unable to run.
C6_FatalReconfigureCloses ==
    (last.op = ReconfigureOp /\ last.error = "device open error" /\ ~last.rollbackOk)
        => /\ ~last.ret
           /\ Closed /\ fDevice = NoDevice
           /\ fMidiIns = <<>> /\ fMidiOuts = <<>>
           /\ NoNativeHandles
           /\ ~ENABLED AudioCallback

C6_Witness ==
    /\ last.op = ReconfigureOp /\ last.error = "device open error" /\ ~last.rollbackOk
    /\ last.pre.isPlaying
    /\ \E i \in 1..Len(last.ops) : last.ops[i][1] = "in" /\ last.ops[i][2] = "delete"
    /\ \E i \in 1..Len(last.ops) : last.ops[i][1] = "out" /\ last.ops[i][2] = "delete"

\* the actions of the callbacks a call sent
Sent(call) == {call.callbacks[i].action : i \in 1..Len(call.callbacks)}

\* C7: after setBufferSizeAndSampleRate() returns true, sampleRateChanged was
\* sent exactly when the device's sample rate differs from the one before the
\* call, and bufferSizeChanged exactly when its buffer size differs.
C7_NotifiesOnlyChanges ==
    (last.op = ReconfigureOp /\ last.ret)
        => /\ "sampleRateChanged" \in Sent(last)
                <=> fDevice.sampleRate # last.pre.devSampleRate
           /\ "bufferSizeChanged" \in Sent(last)
                <=> fDevice.bufferSize # last.pre.devBufferSize
           /\ Len(last.callbacks) = Cardinality(Sent(last))

\* a request the device snaps back to the values it already runs at
C7_Witness ==
    /\ last.op = ReconfigureOp /\ last.ret
    /\ last.bufferSize \notin DeviceBufferSizes
    /\ last.bufferSize # last.pre.devBufferSize
    /\ fDevice.bufferSize = last.pre.devBufferSize
    /\ fDevice.sampleRate = last.pre.devSampleRate
    /\ last.callbacks = <<>>

\* a count that is not positive counts as 0
Positive(n) == IF n > 0 THEN n ELSE 0

\* C8: getTotalXruns() returns max(0, device count - baseline) and never a
\* wrapped-around difference; the baseline is 0 until clearXruns() stores the
\* device count, and getTotalXruns() directly after clearXruns() returns 0.
C8_XrunsSinceClear ==
    /\ [](last.op = "getTotalXruns"
            => /\ last.value = Positive(Positive(fDevice.xruns) - pData.xruns)
               /\ last.value >= 0 /\ last.value <= MaxXruns)
    /\ [](last.op = "clearXruns" => pData.xruns = Positive(fDevice.xruns))
    /\ [][pData.xruns' # pData.xruns => last'.op = "clearXruns"]_vars
    /\ [][last.op = "clearXruns" /\ last'.op = "getTotalXruns" => last'.value = 0]_vars

\* the device count restarted below the stored baseline
C8_Witness ==
    /\ last.op = "getTotalXruns"
    /\ fDevice.xruns > 0 /\ fDevice.xruns < pData.xruns
    /\ last.value = 0

\* C9: close() directly after a successful init() leaves the engine closed
\* with no MIDI endpoint, an empty event queue and no port or connection
\* record, whatever buffer size and sample rate init() asked for.
C9_OpenCloseLeavesNothing ==
    (last.op = "close" /\ prev.op = "init" /\ prev.ret)
        => /\ Closed /\ fDevice = NoDevice
           /\ fMidiIns = <<>> /\ fMidiOuts = <<>>
           /\ NoNativeHandles
           /\ fMidiInEvents = [data |-> <<>>, dataPending |-> <<>>]
           /\ pData.graph = NoGraph

C9_Witness ==
    /\ last.op = "close" /\ prev.op = "init" /\ prev.ret
    /\ last.pre.isPlaying
    /\ pData.bufferSize = Max(DeviceBufferSizes)
    /\ pData.sampleRate = Max(DeviceSampleRates)

\* C10: after two setBufferSizeAndSampleRate() calls in a row that both return
\* true, the second asking for the values in force before the first, the engine
\* and the device hold those values again and the device is playing.
C10_ReconfigureRoundTrip ==
    (/\ last.op = ReconfigureOp /\ last.ret
     /\ prev.op = ReconfigureOp /\ prev.ret
     /\ last.bufferSize = prev.preBufferSize
     /\ last.sampleRate = prev.preSampleRate)
        => /\ pData.bufferSize = prev.preBufferSize
           /\ pData.sampleRate = prev.preSampleRate
           /\ fDevice.bufferSize = prev.preBufferSize
           /\ fDevice.sampleRate = prev.preSampleRate
           /\ Playing

\* the first call moved both values, the second moved them back
C10_Witness ==
    /\ last.op = ReconfigureOp /\ last.ret
    /\ prev.op = ReconfigureOp /\ prev.ret
    /\ last.bufferSize = prev.preBufferSize
    /\ last.sampleRate = prev.preSampleRate
    /\ last.pre.bufferSize # prev.preBufferSize
    /\ last.pre.sampleRate # prev.preSampleRate
    /\ last.pre.isPlaying

(***************************************************************************)
(* Properties of the render callback and the MIDI endpoints                *)
(***************************************************************************)
RenderOp == "audioDeviceIOCallback"

\* C11: while the device is playing pData->bufferSize equals the device's
\* buffer size; it changes only inside init() and setBufferSizeAndSampleRate(),
\* and a callback delivered the device's buffer size passes the size test.
C11_BufferSizeFollowsDevice ==
    /\ [](Playing => pData.bufferSize = fDevice.bufferSize)
    /\ [](last.op = RenderOp /\ last.value = fDevice.bufferSize => last.ret)
    /\ [][pData.bufferSize' # pData.bufferSize
            => last'.op \in {"init", ReconfigureOp} /\ last'.ret]_vars

\* a callback right after a reconfiguration that changed the buffer size
C11_Witness ==
    /\ last.op = RenderOp /\ last.ret
    /\ prev.op = ReconfigureOp /\ prev.ret
    /\ prev.preBufferSize # pData.bufferSize
    /\ last.value = pData.bufferSize

\* the names the MIDI enumeration does not list
UnknownIn == {n \in PortNames : \A i \in 1..Len(MidiInDevices) : MidiInDevices[i].name # n}
UnknownOut == {n \in PortNames : \A i \in 1..Len(MidiOutDevices) : MidiOutDevices[i].name # n}

\* C20: connecting a MIDI input or output by a name no enumerated device has
\* returns false, opens and starts nothing and leaves fMidiIns, fMidiOuts and
\* the native handles as they were.
C20_ConnectUnknownName ==
    [][(\/ last'.op = "connectMidiInput" /\ last'.name \in UnknownIn
        \/ last'.op = "connectMidiOutput" /\ last'.name \in UnknownOut)
          => /\ ~last'.ret
             /\ last'.ops = <<>>
             /\ UNCHANGED <<fMidiIns, fMidiOuts, native>>]_vars

\* the name of an input device given to the output side
C20_Witness ==
    /\ last.op = "connectMidiOutput" /\ last.name \in UnknownOut
    /\ last.name \notin UnknownIn
    /\ ~last.ret

C14_SilenceWhenNothingProduced ==
    (last.op = RenderOp /\ last.output # "samples") => last.output = "zeros"

\* C15: a callback delivered a period length other than pData->bufferSize
\* does not invoke the graph, takes nothing from the event queue and sends
\* nothing to a MIDI output.
C15_MismatchAborts ==
    [][(last'.op = RenderOp /\ last'.value # pData.bufferSize)
          => /\ ~last'.ret /\ ~last'.graphInvoked
             /\ last'.graphEvents = <<>>
             /\ last'.ops = <<>>
             /\ UNCHANGED fMidiInEvents]_vars

C15_Witness ==
    /\ last.op = RenderOp /\ last.value # pData.bufferSize
    /\ Len(fMidiInEvents.dataPending) > 0
    /\ Len(fMidiOuts) > 0

\* the raw events a callback finds queued, in delivery order
Queued == fMidiInEvents.data \o fMidiInEvents.dataPending

\* C16: a callback whose tryLock fails invokes the graph with no input event
\* and leaves the queue as it is; a callback whose tryLock succeeds hands the
\* graph the queued events in order, up to the cap.
C16_LockBusyKeepsEvents ==
    /\ [][(last'.op = RenderOp /\ last'.ret /\ ~last'.locked)
            => /\ last'.graphInvoked
               /\ last'.graphEvents = <<>>
               /\ UNCHANGED fMidiInEvents]_vars
    /\ [][(last'.op = RenderOp /\ last'.ret /\ last'.locked)
            => /\ last'.graphInvoked
               /\ Len(last'.graphEvents) = Min({Len(Queued), kMaxEngineEventInternalCount})
               /\ \A i \in 1..Len(last'.graphEvents) :
                     /\ last'.graphEvents[i].data = Queued[i].data
                     /\ last'.graphEvents[i].size = Queued[i].size]_vars

\* the lock is held by the MIDI thread and an earlier event is still pending
C16_Witness ==
    /\ last.op = RenderOp /\ last.ret /\ ~last.locked
    /\ midiThread.pc = "append"
    /\ Len(fMidiInEvents.dataPending) > 0

\* C17: a callback writes at most kMaxEngineEventInternalCount events to
\* events.in, and the raw events beyond that are dropped with the rest of the
\* queue, without an error.
C17_EventCap ==
    /\ [](last.op = RenderOp => Len(last.graphEvents) <= kMaxEngineEventInternalCount)
    /\ [][(last'.op = RenderOp /\ last'.ret /\ last'.locked)
            => /\ Len(last'.graphEvents) = Min({Len(Queued), kMaxEngineEventInternalCount})
               /\ fMidiInEvents'.data = <<>> /\ fMidiInEvents'.dataPending = <<>>
               /\ last'.error = "" /\ last'.callbacks = <<>>]_vars

\* more raw events were queued than events.in holds
C17_Witness ==
    /\ last.op = RenderOp /\ last.ret /\ last.locked
    /\ last.queued > kMaxEngineEventInternalCount
    /\ Len(last.graphEvents) = kMaxEngineEventInternalCount
    /\ fMidiInEvents.data = <<>> /\ fMidiInEvents.dataPending = <<>>

\* the entries of events.out in front of the first Null entry
Scanned(out) == {i \in 1..Len(out) : \A j \in 1..i : out[j].type # "Null"}

\* how many times entry i was sent to the endpoint called identifier
SentTimes(call, identifier, i) ==
    Cardinality({k \in 1..Len(call.ops) : call.ops[k] = <<"out", "send", identifier, i>>})

\* C18: every Midi and every Control entry of events.out in front of the
\* first Null entry is sent once to each open MIDI output.
C18_EveryEventToEveryOutput ==
    (last.op = RenderOp /\ last.ret)
        => \A i \in Scanned(last.out) :
              last.out[i].type \in {"Midi", "Control"}
                 => \A k \in 1..Len(fMidiOuts) :
                       SentTimes(last, fMidiOuts[k].identifier, i) = 1

\* C19: nothing behind the first Null entry of events.out is sent.
C19_ScanStopsAtNull ==
    (last.op = RenderOp /\ last.ret)
        => \A k \in 1..Len(last.ops) : last.ops[k][4] \in Scanned(last.out)

\* a Midi entry behind a Null entry, with a MIDI output open
C19_Witness ==
    /\ last.op = RenderOp /\ last.ret
    /\ Len(fMidiOuts) > 0
    /\ \E i \in 1..Len(last.out) : last.out[i].type = "Midi" /\ i \notin Scanned(last.out)
    /\ last.ops = <<>>

EntriesOf(ports, id) == {i \in 1..Len(ports) : ports[i].identifier = id}

\* C22: a successful disconnect stops the endpoint's thread, then deletes its
\* native handle, then removes its registry entry; native handles and registry
\* entries stay paired one to one, so afterwards every message delivered to the
\* event queue comes from an endpoint still in fMidiIns and every message sent
\* by the render callback goes to an endpoint still in fMidiOuts.
C22_DisconnectOrder ==
    /\ [](\A dir \in {"in", "out"} :
            last.op = (IF dir = "in" THEN "disconnectMidiInput" ELSE "disconnectMidiOutput")
            /\ last.ret
              => \E id \in MidiIdentifiers :
                    last.ops = << <<dir, "stop", id>>, <<dir, "delete", id>>,
                                  <<dir, "remove", id>> >>)
    /\ [](\A id \in MidiIdentifiers :
            /\ native.ins[id] = Cardinality(EntriesOf(fMidiIns, id))
            /\ native.outs[id] = Cardinality(EntriesOf(fMidiOuts, id)))
    /\ [](last.op = "audioDeviceIOCallback"
            => \A k \in 1..Len(last.ops) :
                  last.ops[k][1] = "out" /\ last.ops[k][2] = "send"
                    => EntriesOf(fMidiOuts, last.ops[k][3]) # {})
    /\ [][last'.op = "handleIncomingMidiMessage"
            => EntriesOf(fMidiIns, last'.name) # {}]_vars

C22_Witness ==
    /\ last.op = "disconnectMidiInput" /\ last.ret /\ Len(last.ops) = 3
    /\ fMidiIns = <<>> /\ fMidiInEvents.dataPending # <<>>

\* position of the first occurrence of op in ops, 0 if there is none
Index(ops, op) ==
    IF \E k \in 1..Len(ops) : ops[k] = op
    THEN CHOOSE k \in 1..Len(ops) : ops[k] = op /\ \A j \in 1..(k - 1) : ops[j] # op
    ELSE 0

\* the call closed the engine: close() itself or a fatal reconfigure
ClosingCall(call) ==
    \/ call.op = "close"
    \/ call.op = ReconfigureOp /\ call.error = "device open error" /\ ~call.rollbackOk

\* C23: when the engine closes (close() or the close of a fatal reconfigure),
\* every open input endpoint is stopped and then deleted before fMidiIns is
\* cleared, then fMidiOutMutex is taken, every open output endpoint is stopped
\* and then deleted, fMidiOuts is cleared and the mutex released; afterwards
\* both registries are empty and no native handle is left.
C23_CloseOrder ==
    [][ClosingCall(last')
        => LET ops == last'.ops
               inCleared == Index(ops, <<"in", "clear", "">>)
               locked == Index(ops, <<"out", "lock", "">>)
               outCleared == Index(ops, <<"out", "clear", "">>)
               unlocked == Index(ops, <<"out", "unlock", "">>)
               Deleted(dir) == {k \in 1..Len(ops) : ops[k][1] = dir /\ ops[k][2] = "delete"}
           IN  /\ 0 < inCleared /\ inCleared < locked
               /\ locked < outCleared /\ outCleared < unlocked
               /\ \A i \in 1..Len(fMidiIns) :
                     \E a, b \in 1..(inCleared - 1) :
                        /\ a < b
                        /\ ops[a] = <<"in", "stop", fMidiIns[i].identifier>>
                        /\ ops[b] = <<"in", "delete", fMidiIns[i].identifier>>
               /\ \A i \in 1..Len(fMidiOuts) :
                     \E a, b \in (locked + 1)..(outCleared - 1) :
                        /\ a < b
                        /\ ops[a] = <<"out", "stop", fMidiOuts[i].identifier>>
                        /\ ops[b] = <<"out", "delete", fMidiOuts[i].identifier>>
               /\ Cardinality(Deleted("in")) = Len(fMidiIns)
               /\ Cardinality(Deleted("out")) = Len(fMidiOuts)
               /\ fMidiIns' = <<>> /\ fMidiOuts' = <<>>
               /\ \A id \in MidiIdentifiers : native'.ins[id] = 0 /\ native'.outs[id] = 0
      ]_vars

C23_Witness ==
    /\ last.op = "close" /\ last.pre.isPlaying
    /\ Index(last.ops, <<"in", "delete", "in0">>) > 0
    /\ Index(last.ops, <<"out", "delete", "out0">>) > Index(last.ops, <<"out", "lock", "">>)
    /\ fMidiIns = <<>> /\ fMidiOuts = <<>>

\* C24: patchbayRefresh() called while the processing graph is not initialized
\* returns false, leaves every port descriptor sequence, the connection list
\* and the id counter as they were, and sends no notification.
C24_RefreshNotReady ==
    [][last'.op = "patchbayRefresh" /\ ~pData.graph.isReady
        => /\ ~last'.ret
           /\ last'.callbacks = <<>>
           /\ pData'.graph = pData.graph
           /\ <<fDevice, fMidiIns, fMidiOuts, native>>' = <<fDevice, fMidiIns, fMidiOuts, native>>
      ]_vars

C24_Witness ==
    /\ last.op = "patchbayRefresh" /\ ~last.ret /\ last.name = "external"
    /\ ~pData.graph.isReady /\ pData.graph.extGraph = EmptyExtGraph

\* the call rebuilt the external port registry: a patchbayRefresh() that went
\* through refreshExternalGraphPorts (rack mode, or the external patchbay)
RefreshRan(call, processMode) ==
    /\ call.op = "patchbayRefresh" /\ call.ret
    /\ processMode = "CONTINUOUS_RACK" \/ call.name = "external"

\* C25: after a refresh the audio-in sequence holds one descriptor per device
\* input channel and the audio-out sequence one per device output channel, in
\* enumeration order, each with the group of its direction and port ids 1..n.
C25_AudioPorts ==
    RefreshRan(last, pData.options.processMode)
        => LET g == pData.graph.extGraph
           IN  /\ Len(g.audioIns) = fDevice.inputs
               /\ Len(g.audioOuts) = fDevice.outputs
               /\ \A i \in 1..Len(g.audioIns) :
                     /\ g.audioIns[i].group = "AudioIn" /\ g.audioIns[i].port = i
                     /\ g.audioIns[i].name = InputChannelNames[i]
               /\ \A i \in 1..Len(g.audioOuts) :
                     /\ g.audioOuts[i].group = "AudioOut" /\ g.audioOuts[i].port = i
                     /\ g.audioOuts[i].name = OutputChannelNames[i]

C25_Witness ==
    /\ RefreshRan(last, pData.options.processMode)
    /\ Len(pData.graph.extGraph.audioIns) = 1 /\ Len(pData.graph.extGraph.audioOuts) = 2
    /\ pData.graph.extGraph.audioOuts[2].port = 2

\* the enumerated MIDI devices that get a port descriptor
Listed(devs) ==
    LET Shown(dev) == dev.name # "a2jmidid - port"
    IN  SelectSeq(devs, Shown)

\* identifiers of the endpoints in a registry
Identifiers(ports) == {ports[i].identifier : i \in 1..Len(ports)}

\* the descriptor in ports with port id portId names an endpoint of registry
PortIsOpen(ports, portId, registry) ==
    \E k \in 1..Len(ports) :
       ports[k].port = portId /\ ports[k].identifier \in Identifiers(registry)

\* C26: when a refresh returns, the four descriptor sequences hold exactly the
\* channels and MIDI devices enumerated by this refresh, and every connection
\* record was created by this refresh (its id is above the counter the refresh
\* started from) for an endpoint that is open now; nothing of an earlier
\* refresh is left, whatever was connected or disconnected in between.
C26_NothingSurvives ==
    [][RefreshRan(last', pData.options.processMode)
        => LET g == pData'.graph.extGraph
               ins == Listed(MidiInDevices)
               outs == Listed(MidiOutDevices)
           IN  /\ Len(g.audioIns) = fDevice.inputs /\ Len(g.audioOuts) = fDevice.outputs
               /\ Len(g.midiIns) = Len(ins) /\ Len(g.midiOuts) = Len(outs)
               /\ \A i \in 1..Len(g.midiIns) :
                     g.midiIns[i].name = ins[i].name
                     /\ g.midiIns[i].identifier = ins[i].identifier
               /\ \A i \in 1..Len(g.midiOuts) :
                     g.midiOuts[i].name = outs[i].name
                     /\ g.midiOuts[i].identifier = outs[i].identifier
               /\ Len(g.connections) <= Len(fMidiIns) + Len(fMidiOuts)
               /\ \A k \in 1..Len(g.connections) :
                     LET c == g.connections[k]
                     IN  /\ c.id > pData.graph.extGraph.lastId
                         /\ c.groupA = "MidiIn" => PortIsOpen(g.midiIns, c.portA, fMidiIns)
                         /\ c.groupB = "MidiOut" => PortIsOpen(g.midiOuts, c.portB, fMidiOuts)
      ]_vars

\* a refresh that finds no endpoint open after an earlier one recorded one
C26_Witness ==
    /\ RefreshRan(last, pData.options.processMode)
    /\ pData.graph.extGraph.connections = <<>>
    /\ pData.graph.extGraph.lastId > 0
    /\ pData.graph.extGraph.midiIns # <<>>

\* C27: while one session lasts (the graph is there before and after the step)
\* the connection-id counter never decreases, and the connection records a
\* refresh creates get ids above the counter it started from, pairwise
\* different and not above the counter it leaves; no other operation creates or
\* changes a record. Hence no two records ever created share an id.
C27_FreshIds ==
    [][pData.graph.isReady /\ pData'.graph.isReady
        => LET g == pData.graph.extGraph
               h == pData'.graph.extGraph
           IN  /\ h.lastId >= g.lastId
               /\ RefreshRan(last', pData.options.processMode)
                    => \A k \in 1..Len(h.connections) :
                          /\ h.connections[k].id > g.lastId
                          /\ h.connections[k].id <= h.lastId
                          /\ \A j \in 1..Len(h.connections) :
                                j # k => h.connections[j].id # h.connections[k].id
               /\ ~RefreshRan(last', pData.options.processMode)
                    => h.connections = g.connections
      ]_vars

\* a second refresh gives the same open endpoint a second, higher id
C27_Witness ==
    /\ RefreshRan(last, pData.options.processMode)
    /\ Len(pData.graph.extGraph.connections) = 1
    /\ pData.graph.extGraph.connections[1].id = 2
    /\ pData.graph.extGraph.lastId = 2

\* the "connection added" notifications of a call that carry connection id
AddedFor(call, id) ==
    {k \in 1..Len(call.callbacks) :
        call.callbacks[k].action = "PATCHBAY_CONNECTION_ADDED" /\ call.callbacks[k].value = id}

\* C28: after a successful refresh the connection list holds exactly one
\* record per open MIDI input endpoint (its port to the engine's MIDI-in port)
\* and exactly one per open MIDI output endpoint (the engine's MIDI-out port to
\* its port), and one "connection added" notification was sent for each record.
C28_OneRecordPerEndpoint ==
    RefreshRan(last, pData.options.processMode)
        => LET conns == pData.graph.extGraph.connections
               FromInputs == {k \in 1..Len(conns) :
                                 /\ conns[k].groupA = "MidiIn" /\ conns[k].groupB = "Carla"
                                 /\ conns[k].portB = kExternalGraphCarlaPortMidiIn}
               ToOutputs == {k \in 1..Len(conns) :
                                /\ conns[k].groupA = "Carla" /\ conns[k].groupB = "MidiOut"
                                /\ conns[k].portA = kExternalGraphCarlaPortMidiOut}
           IN  /\ Cardinality(FromInputs) = Len(fMidiIns)
               /\ Cardinality(ToOutputs) = Len(fMidiOuts)
               /\ Len(conns) = Len(fMidiIns) + Len(fMidiOuts)
               /\ \A k \in 1..Len(conns) : Cardinality(AddedFor(last, conns[k].id)) = 1

\* what a descriptor sequence shows: (group, port, name) position by position
Triples(ports) == [i \in 1..Len(ports) |-> <<ports[i].group, ports[i].port, ports[i].name>>]

\* the endpoints of the connection records, ids left out
Endpoints(conns) ==
    [i \in 1..Len(conns) |->
        <<conns[i].groupA, conns[i].portA, conns[i].groupB, conns[i].portB>>]

\* C29: a refresh directly after a refresh (no change of device channels,
\* enumerable MIDI devices or open endpoints in between) leaves descriptor
\* sequences whose (group, port, name) triples match position by position
\* and connection records with the same endpoints; only the ids may differ.
C29_RefreshIdempotent ==
    [][(/\ RefreshRan(last, pData.options.processMode)
        /\ RefreshRan(last', pData'.options.processMode))
        => LET g == pData.graph.extGraph
               h == pData'.graph.extGraph
           IN  /\ Triples(h.audioIns) = Triples(g.audioIns)
               /\ Triples(h.audioOuts) = Triples(g.audioOuts)
               /\ Triples(h.midiIns) = Triples(g.midiIns)
               /\ Triples(h.midiOuts) = Triples(g.midiOuts)
               /\ Endpoints(h.connections) = Endpoints(g.connections)
      ]_vars

\* a refresh that recorded the open output again, under the next id
C29_Witness ==
    /\ RefreshRan(last, pData.options.processMode)
    /\ Endpoints(pData.graph.extGraph.connections)
         = << <<"Carla", kExternalGraphCarlaPortMidiOut, "MidiOut", 1>> >>
    /\ pData.graph.extGraph.connections[1].id = 2

\* the call failed in a way that must leave a message: a failing init(), or a
\* reconfigure whose open and rollback open both failed
FailedOpen(call) == call.op = "init" /\ ~call.ret

\* fDevice = nullptr inside a reconfigure happens on the fatal branch only
FatalReconfigure(call) ==
    call.op = ReconfigureOp /\ ~call.ret /\ Index(call.ops, <<"device", "delete", "">>) > 0

\* C30 as stated: every failing init() and every fatal reconfigure has set a
\* non-empty last-error message before it returned.
C30_ErrorOnEveryFailure ==
    FailedOpen(last) \/ FatalReconfigure(last) => last.error # ""

\* C30: every failing init() that was given a client name, and every fatal
\* reconfigure, has set a non-empty last-error message before it returned; an
\* init() refused for its empty client name returns false without a message.
C30_ErrorOnFailure ==
    /\ (FailedOpen(last) /\ last.name # "") \/ FatalReconfigure(last) => last.error # ""
    /\ FailedOpen(last) /\ last.name = "" => last.error = ""

C30_Witness ==
    /\ FailedOpen(last) /\ last.name = "Carla"
    /\ last.error = "Failed to init internal data"
    /\ Closed

\* C31: the render callback never waits for the event queue mutex: while the
\* device plays with the engine as its callback a period can always be
\* delivered, also while a producer sits inside append() holding the mutex;
\* such a period leaves the producer where it is, still invokes the graph and
\* finishes with the output buffers written.
C31_RenderNeverWaits ==
    /\ [](Playing /\ fDevice.callback = "engine" => ENABLED RenderCallback)
    /\ [](last.op = "audioDeviceIOCallback" /\ last.ret /\ ~last.locked
            => last.graphInvoked /\ last.output \in {"zeros", "samples"})
    /\ [][last'.op = "audioDeviceIOCallback" => midiThread' = midiThread]_vars

\* a period delivered while the producer holds the mutex
C31_Witness ==
    /\ last.op = "audioDeviceIOCallback" /\ last.ret /\ ~last.locked
    /\ midiThread.pc = "append" /\ last.graphInvoked

\* the sections of the control thread that read or change fMidiOuts
OutputSections == {"connectOut", "disconnectOut", "disconnectOutRemove", "refreshOut", "closeOut"}

\* every registry entry of an output has a native handle that is still open
LiveOutputs ==
    \A id \in MidiIdentifiers : native.outs[id] >= Cardinality(EntriesOf(fMidiOuts, id))

\* C32: fMidiOuts is read and changed only under fMidiOutMutex: at most one
\* thread holds the mutex, the render thread holds it throughout its fan-out,
\* the control thread holds it throughout the output parts of connect,
\* disconnect, refresh and close, the set and the handles never change while
\* the fan-out runs, and every message the fan-out sends goes to a handle
\* that is still open.
C32_OutputsUnderMutex ==
    /\ [](~("out" \in sync.held["render"] /\ "out" \in sync.held["control"]))
    /\ [](sync.render = "fanout" => "out" \in sync.held["render"] /\ LiveOutputs)
    /\ [](sync.control \in OutputSections => "out" \in sync.held["control"])
    /\ [](last.op = "render.fanOut"
            => \A k \in 1..Len(last.ops) : native.outs[last.ops[k][3]] > 0)
    /\ [][sync.render = "fanout" /\ sync'.render = "fanout"
            => fMidiOuts' = fMidiOuts /\ native'.outs = native.outs]_vars

\* the render thread waits at fMidiOutMutex.lock() while a disconnect has
\* deleted the handle of an entry that is still in fMidiOuts
C32_Witness ==
    /\ sync.control = "disconnectOutRemove" /\ sync.render = "process"
    /\ ~LiveOutputs /\ "out" \in sync.held["control"]

\* the positions of the control thread after the fDevice->stop() of close() and
\* between the stop and the start of setBufferSizeAndSampleRate()
AfterStop == {"closeQueue", "closeLockOut", "closeOut", "reconfigure"}

\* C33: once close() has stopped the device, and between the stop and the
\* restart inside setBufferSizeAndSampleRate(), the render callback is neither
\* running nor able to start; the graph is destroyed, the queue cleared by the
\* control thread, the endpoints released by close() and the configured buffer
\* size and sample rate changed only while no callback runs.
C33_NoRenderAfterStop ==
    /\ [](sync.control \in AfterStop => sync.render = "idle" /\ ~ENABLED RenderTryLock)
    /\ [][(\/ pData.graph.isReady /\ ~pData'.graph.isReady
           \/ pData'.bufferSize # pData.bufferSize
           \/ pData'.sampleRate # pData.sampleRate
           \/ last'.op \in {"close.stop", "close.clear", "close.lock", "close"})
            => sync.render = "idle" /\ sync'.render = "idle"]_vars

\* close() has stopped a device that was playing with endpoints connected and
\* an event queued, and is about to clear the queue
C33_Witness ==
    /\ sync.control = "closeQueue" /\ sync.render = "idle"
    /\ fDevice.exists /\ ~fDevice.isPlaying
    /\ Len(Queued) > 0 /\ Len(fMidiOuts) > 0

\* the mutexes thread t holds
Held(t) == sync.held[t]

\* C39: no thread holds the queue mutex and fMidiOutMutex at the same time, a
\* thread that is outside every operation holds neither, and whoever holds a
\* mutex can take the step that releases it without taking another one, so no
\* two threads wait for each other.
C39_NoDeadlock ==
    /\ [](\A t \in Threads : Cardinality(Held(t)) <= 1)
    /\ [](sync.render = "idle" => Held("render") = {})
    /\ [](sync.control = "idle" => Held("control") = {})
    /\ [](midiThread.pc = "idle" => Held("midi") = {})
    /\ []("queue" \in Held("render") => ENABLED RenderDrain)
    /\ []("queue" \in Held("midi") => ENABLED MidiInputAppend)
    /\ []("queue" \in Held("control") => ENABLED CloseQueue)
    /\ []("out" \in Held("render") => ENABLED RenderFanOut)
    /\ []("out" \in Held("control")
            => ENABLED (ConnectOutEnd \/ DisconnectOutRelease \/ DisconnectOutRemove
                        \/ RefreshEnd \/ CloseOut))

\* close() has released the queue mutex and holds fMidiOutMutex, with the
\* outputs still to be released
C39_Witness ==
    /\ sync.control = "closeOut" /\ Held("control") = {"out"}
    /\ Len(fMidiOuts) > 0

\* C34: a raw event appended by handleIncomingMidiMessage() carries the render
\* frame position at which its message arrived: a message that arrives after
\* the period starting at frame f was delivered is stamped with a time of at
\* least f.
C34_ArrivalTimestamp ==
    (/\ last.op = "handleIncomingMidiMessage"
     /\ last.value >= 1 /\ last.value <= kDataSize)
        => /\ Len(fMidiInEvents.dataPending) > 0
           /\ last.time >= last.frame

HandlerOp == "handleIncomingMidiMessage"

\* C35: handleIncomingMidiMessage() changes nothing but dataPending: for a
\* message of 1 to kDataSize bytes it appends exactly one event, of the
\* message's size, behind the events already pending, holding the queue mutex
\* while it does and releasing it after; for an empty or longer message it
\* changes nothing and takes no mutex. data, pData and the endpoint registries
\* are left as they were. While the handler is inside append() it alone holds
\* the queue mutex.
C35_HandlerAppendsPending ==
    /\ [](midiThread.pc = "append"
            => Held("midi") = {"queue"} /\ "queue" \notin Held("render") \cup Held("control"))
    /\ [][last'.op = HandlerOp =>
            /\ fMidiInEvents'.data = fMidiInEvents.data
            /\ pData' = pData /\ fDevice' = fDevice
            /\ fMidiIns' = fMidiIns /\ fMidiOuts' = fMidiOuts /\ native' = native
            /\ IF last'.value >= 1 /\ last'.value <= kDataSize
               THEN /\ "queue" \in Held("midi") /\ Free(sync', "queue")
                    /\ Len(fMidiInEvents'.dataPending) = Len(fMidiInEvents.dataPending) + 1
                    /\ SubSeq(fMidiInEvents'.dataPending, 1, Len(fMidiInEvents.dataPending))
                          = fMidiInEvents.dataPending
                    /\ fMidiInEvents'.dataPending[Len(fMidiInEvents'.dataPending)].size
                          = last'.value
               ELSE /\ fMidiInEvents'.dataPending = fMidiInEvents.dataPending
                    /\ sync' = sync]_vars

\* an event appended while the render thread is inside a callback
C35_Witness ==
    /\ last.op = HandlerOp /\ last.value = 3
    /\ Len(fMidiInEvents.dataPending) = 1 /\ fMidiInEvents.dataPending[1].size = 3
    /\ sync.render = "process"

\* C37: a callback that took the queue mutex leaves data and dataPending both
\* empty, having handed the graph no more events than were queued; a callback
\* that did not take it hands the graph nothing and leaves the queue alone; a
\* period that directly follows a drain is handed no event. So no raw event
\* reaches the graph in two periods.
C37_AtMostOnce ==
    [][(last'.op = RenderOp /\ last'.ret) =>
          /\ last'.locked => /\ fMidiInEvents'.data = <<>>
                             /\ fMidiInEvents'.dataPending = <<>>
                             /\ Len(last'.graphEvents) <= Len(Queued)
          /\ ~last'.locked => /\ last'.graphEvents = <<>>
                              /\ fMidiInEvents' = fMidiInEvents
          /\ (last.op = RenderOp /\ last.ret /\ last.locked /\ last'.locked)
                => last'.graphEvents = <<>>]_vars

\* a drain that handed the graph two events and left nothing queued
C37_Witness ==
    /\ last.op = RenderOp /\ last.ret /\ last.locked
    /\ Len(last.graphEvents) = 2 /\ last.queued = 2
    /\ fMidiInEvents = [data |-> <<>>, dataPending |-> <<>>]

\* the payloads of a sequence of events, in order
Payloads(events) == [i \in 1..Len(events) |-> events[i].data]

\* C38: the events a callback writes to events.in are the first queued raw
\* events in the order they were appended (data, then dataPending), whatever
\* their timestamps; a producer's append goes behind everything pending.
C38_AppendOrder ==
    /\ [][(last'.op = RenderOp /\ last'.ret /\ last'.locked)
            => Payloads(last'.graphEvents)
                  = SubSeq(Payloads(Queued), 1, Len(last'.graphEvents))]_vars
    /\ [][last'.op = HandlerOp
            => SubSeq(fMidiInEvents'.dataPending, 1, Len(fMidiInEvents.dataPending))
                  = fMidiInEvents.dataPending]_vars

\* two events handed over in append order although the first was stamped later
\* than the second
C38_Witness ==
    /\ last.op = RenderOp /\ last.ret /\ last.locked
    /\ Len(last.graphEvents) = 2
    /\ last.graphEvents[1].data[1] = 248 /\ last.graphEvents[2].data[1] = 144
    /\ last.graphEvents[1].time > last.graphEvents[2].time

\* the registry holds a type named like the API asked for
Registered(types, api) == \E i \in 1..Len(types) : types[i] = JuceApiName(api)

\* C40: newJuce(api) returns an engine bound to the registered type whose name
\* is the API's name, and nullptr when the registry holds no type of that name.
C40_FactoryByName ==
    \A t \in DOMAIN juce.result :
       LET r == juce.result[t]
       IN  r.op = "newJuce"
              => r.engine = IF Registered(r.types, r.api) THEN JuceApiName(r.api)
                            ELSE NullType

\* C36: the device types are created once, and a thread whose call to
\* initJuceDevicesIfNeeded() has returned finds the registry as one complete
\* initialisation leaves it: the platform's types without JACK, sorted by name.
C36_InitOnce ==
    /\ juce.created <= 1
    /\ \A t \in DOMAIN juce.pc :
          juce.pc[t] = "ready" => gDeviceTypes = Initialised(juce.platform)

====
